---- MODULE Spec2Model ----
(***************************************************************************)
(* Model of the product-safety backend (src/main.py): the tiered scoring   *)
(* engine calculate_v4_score, the cache-key normaliser, the scoring and    *)
(* deep-research caches, and the deep-research job state machine.          *)
(*                                                                         *)
(* Text is modelled with TLA+ strings; a character is a string of length   *)
(* one.  The alphabet of the inputs has no newline, so the regular         *)
(* expression atom "." matches every character of a name.                  *)
(***************************************************************************)
EXTENDS Integers, Sequences, FiniteSets, TLC

(***************************************************************************)
(* Python str helpers                                                      *)
(***************************************************************************)
CharAt(s, i) == SubSeq(s, i, i)

UpperChars == <<"A","B","C","D","E","F","G","H","I","J","K","L","M",
                "N","O","P","Q","R","S","T","U","V","W","X","Y","Z">>

LowerChars == <<"a","b","c","d","e","f","g","h","i","j","k","l","m",
                "n","o","p","q","r","s","t","u","v","w","x","y","z">>

DigitChars == {"0","1","2","3","4","5","6","7","8","9"}

SpaceChars == {" ", "\t", "\n"}

\* \w of the re module: letters, digits and the underscore
WordChars == {UpperChars[i] : i \in 1..26} \cup {LowerChars[i] : i \in 1..26}
               \cup DigitChars \cup {"_"}

LowerChar(c) ==
    IF \E i \in 1..26 : UpperChars[i] = c
    THEN LowerChars[CHOOSE i \in 1..26 : UpperChars[i] = c]
    ELSE c

\* str.lower() of ASCII text, character by character
RECURSIVE lower(_)
lower(s) ==
    IF Len(s) = 0 THEN ""
    ELSE IF Len(s) = 1 THEN LowerChar(s)
    ELSE lower(SubSeq(s, 1, Len(s) \div 2))
            \o lower(SubSeq(s, Len(s) \div 2 + 1, Len(s)))

\* str.strip(): drop leading and trailing whitespace
RECURSIVE strip(_)
strip(s) ==
    IF Len(s) = 0 THEN ""
    ELSE IF CharAt(s, 1) \in SpaceChars THEN strip(SubSeq(s, 2, Len(s)))
    ELSE IF CharAt(s, Len(s)) \in SpaceChars THEN strip(SubSeq(s, 1, Len(s) - 1))
    ELSE s

\* Python "k in s"
Contains(s, k) ==
    \E i \in 1..(Len(s) - Len(k) + 1) : SubSeq(s, i, i + Len(k) - 1) = k

StartsAt(s, i, k) ==
    /\ i + Len(k) - 1 <= Len(s)
    /\ SubSeq(s, i, i + Len(k) - 1) = k

AllIn(s, i, j, cls) == \A p \in i..j : CharAt(s, p) \in cls

(***************************************************************************)
(* normalize_cache_key (src/main.py 2423-2462)                             *)
(***************************************************************************)
\* Every pattern ends in ".*", so re.sub(pattern, '', s) cuts s at the start
\* of the leftmost match.  CutAt gives the text kept for a set of match starts.
CutAt(s, starts) ==
    IF starts = {} THEN s
    ELSE SubSeq(s, 1, (CHOOSE i \in starts : \A j \in starts : i <= j) - 1)

\* r'\s*-\s*.*$': optional whitespace, then a dash
DashStarts(s) ==
    {i \in 1..Len(s) :
        \E d \in i..Len(s) : CharAt(s, d) = "-" /\ AllIn(s, i, d - 1, SpaceChars)}

\* r'\s+<word>.*': at least one whitespace, then the word
WordStarts(s, w) ==
    {i \in 1..Len(s) :
        \E j \in (i + 1)..Len(s) : AllIn(s, i, j - 1, SpaceChars) /\ StartsAt(s, j, w)}

SizeUnitsWithoutCt == {"oz", "ml", "count", "pack"}

SizeUnits == {"oz", "ml", "ct", "count", "pack"}

\* r'\s+\d+\s*(oz|ml|ct|count|pack).*'
SizeStarts(s) ==
    {i \in 1..Len(s) :
        \E j \in (i + 1)..Len(s) :
            /\ AllIn(s, i, j - 1, SpaceChars)
            /\ \E k \in (j + 1)..Len(s) :
                  /\ AllIn(s, j, k - 1, DigitChars)
                  /\ \E u \in k..Len(s) :
                        /\ AllIn(s, k, u - 1, SpaceChars)
                        /\ \E unit \in SizeUnits : StartsAt(s, u, unit)}

\* variant_patterns, in the order of the list
VariantWordsA == <<"lemon", "fresh", "original", "crisp", "clean",
                   "lavender", "citrus", "unscented">>

VariantWordsB == <<"value", "family", "travel">>

RECURSIVE StripWords(_, _, _)
StripWords(s, words, n) ==
    IF n > Len(words) THEN s
    ELSE StripWords(CutAt(s, WordStarts(s, words[n])), words, n + 1)

StripVariants(s) ==
    LET a == CutAt(s, DashStarts(s))
        b == StripWords(a, VariantWordsA, 1)
        c == CutAt(b, SizeStarts(b))
    IN  StripWords(c, VariantWordsB, 1)

\* re.sub(r'[^\w\s]', '', s)
RECURSIVE RemovePunct(_)
RemovePunct(s) ==
    IF Len(s) = 0 THEN ""
    ELSE (IF CharAt(s, 1) \in WordChars \cup SpaceChars THEN CharAt(s, 1) ELSE "")
            \o RemovePunct(SubSeq(s, 2, Len(s)))

\* re.sub(r'\s+', ' ', s)
RECURSIVE CollapseSpaces(_)
CollapseSpaces(s) ==
    IF Len(s) = 0 THEN ""
    ELSE IF CharAt(s, 1) \in SpaceChars
         THEN IF Len(s) >= 2 /\ CharAt(s, 2) \in SpaceChars
              THEN CollapseSpaces(SubSeq(s, 2, Len(s)))
              ELSE " " \o CollapseSpaces(SubSeq(s, 2, Len(s)))
         ELSE CharAt(s, 1) \o CollapseSpaces(SubSeq(s, 2, Len(s)))

NameClean(product_name) ==
    strip(CollapseSpaces(RemovePunct(StripVariants(strip(lower(product_name))))))

BrandClean(brand) ==
    strip(CollapseSpaces(RemovePunct(strip(lower(brand)))))

normalize_cache_key(brand, product_name) ==
    BrandClean(brand) \o ":" \o NameClean(product_name)

(***************************************************************************)
(* Optional values: None is the empty tuple, a present value x is <<x>>.   *)
(***************************************************************************)
None == <<>>

Some(x) == <<x>>

\* Python "opt or default" for an Optional[str]
OrElse(opt, default) ==
    IF opt = None \/ opt = Some("") THEN default ELSE opt[1]

(***************************************************************************)
(* dict helpers: a dict is a function over the set of its keys             *)
(***************************************************************************)
EmptyDict == [k \in {} |-> None]

DictSet(d, k, v) == [x \in DOMAIN d \cup {k} |-> IF x = k THEN v ELSE d[x]]

(***************************************************************************)
(* Tables of the tiered scoring engine (src/main.py 463-889).  A dict is   *)
(* the sequence of its entries in insertion order, which is the order the  *)
(* loops of calculate_v4_score visit them in.  Of an entry the model keeps *)
(* what the score depends on: the key, the grade of a safe ingredient and  *)
(* the key of the hidden truth; the reason texts are left out.             *)
(***************************************************************************)
TIER_1_AVOID ==
    <<
       [key |-> "processed meat", hidden_truth |-> Some("ractopamine")],
       [key |-> "sodium nitrite", hidden_truth |-> None],
       [key |-> "sodium nitrate", hidden_truth |-> None],
       [key |-> "ractopamine", hidden_truth |-> Some("ractopamine")],
       [key |-> "potassium bromate", hidden_truth |-> Some("potassium bromate")],
       [key |-> "brominated vegetable oil", hidden_truth |-> Some("brominated_vegetable_oil")],
       [key |-> "azodicarbonamide", hidden_truth |-> Some("azodicarbonamide")],
       [key |-> "red 3", hidden_truth |-> Some("red_3")],
       [key |-> "bha", hidden_truth |-> Some("BHA")],
       [key |-> "butylated hydroxyanisole", hidden_truth |-> Some("BHA")],
       [key |-> "bht", hidden_truth |-> Some("BHT")],
       [key |-> "butylated hydroxytoluene", hidden_truth |-> Some("BHT")],
       [key |-> "partially hydrogenated", hidden_truth |-> Some("partially_hydrogenated")]
    >>

TIER_2_LIMIT ==
    <<
       [key |-> "aspartame"],
       [key |-> "red 40"],
       [key |-> "allura red"],
       [key |-> "yellow 5"],
       [key |-> "tartrazine"],
       [key |-> "yellow 6"],
       [key |-> "sunset yellow"],
       [key |-> "caramel color"],
       [key |-> "titanium dioxide"],
       [key |-> "propylparaben"],
       [key |-> "high fructose corn syrup"],
       [key |-> "hfcs"],
       [key |-> "maltodextrin"],
       [key |-> "dextrose"],
       [key |-> "carrageenan"],
       [key |-> "sodium benzoate"],
       [key |-> "polysorbate 80"],
       [key |-> "tbhq"],
       [key |-> "tertiary butylhydroquinone"]
    >>

TIER_3_CAUTION ==
    <<
       [key |-> "palm oil", hidden_truth |-> None],
       [key |-> "soybean oil", hidden_truth |-> None],
       [key |-> "corn syrup", hidden_truth |-> None],
       [key |-> "modified food starch", hidden_truth |-> None],
       [key |-> "modified starch", hidden_truth |-> None],
       [key |-> "mono and diglycerides", hidden_truth |-> None],
       [key |-> "monoglycerides", hidden_truth |-> None],
       [key |-> "diglycerides", hidden_truth |-> None],
       [key |-> "soy lecithin", hidden_truth |-> None],
       [key |-> "citric acid", hidden_truth |-> None],
       [key |-> "xanthan gum", hidden_truth |-> None],
       [key |-> "natural flavors", hidden_truth |-> Some("natural_flavors")],
       [key |-> "artificial flavors", hidden_truth |-> None],
       [key |-> "msg", hidden_truth |-> None],
       [key |-> "monosodium glutamate", hidden_truth |-> None]
    >>

TIER_4_SAFE ==
    <<
       [key |-> "whole wheat flour", grade |-> "A"],
       [key |-> "whole grain", grade |-> "A"],
       [key |-> "olive oil", grade |-> "A"],
       [key |-> "butter", grade |-> "B"],
       [key |-> "sea salt", grade |-> "B"],
       [key |-> "salt", grade |-> "B"],
       [key |-> "cane sugar", grade |-> "B"],
       [key |-> "water", grade |-> "A"],
       [key |-> "aqua", grade |-> "A"],
       [key |-> "organic", grade |-> "A"],
       [key |-> "non-gmo verified", grade |-> "A"],
       [key |-> "non-gmo", grade |-> "A"],
       [key |-> "fair trade", grade |-> "A"],
       [key |-> "usda organic", grade |-> "A"],
       [key |-> "glycerin", grade |-> "A"],
       [key |-> "vegetable glycerin", grade |-> "A"],
       [key |-> "vitamin e", grade |-> "A"],
       [key |-> "tocopherol", grade |-> "A"],
       [key |-> "baking soda", grade |-> "A"],
       [key |-> "sodium bicarbonate", grade |-> "A"],
       [key |-> "vinegar", grade |-> "A"],
       [key |-> "acetic acid", grade |-> "B"]
    >>

\* parent company, penalty and the brands it owns
CORPORATE_PENALTIES ==
    <<
       [parent |-> "Nestlé", penalty |-> -15,
        brands |-> <<
           "Gerber", "DiGiorno", "Stouffer's", "Hot Pockets",
           "Lean Cuisine", "Coffee-Mate", "Carnation", "Häagen-Dazs",
           "Dreyer's", "Nestle" >>],
       [parent |-> "PepsiCo", penalty |-> -12,
        brands |-> <<
           "Quaker", "Frito-Lay", "Tropicana", "Gatorade", "Naked Juice",
           "Sabra", "Siete Foods", "Poppi", "Pepsi", "Lay's", "Doritos" >>],
       [parent |-> "Kraft Heinz", penalty |-> -12,
        brands |-> <<
           "Oscar Mayer", "Lunchables", "Velveeta", "Philadelphia",
           "Jell-O", "Kool-Aid", "Maxwell House", "Capri Sun", "Kraft",
           "Heinz" >>],
       [parent |-> "General Mills", penalty |-> -10,
        brands |-> <<
           "Annie's", "Cascadian Farm", "Lärabar", "Nature Valley",
           "Cheerios", "Lucky Charms", "Yoplait", "Häagen-Dazs" >>],
       [parent |-> "Kellogg's", penalty |-> -10,
        brands |-> <<
           "Kashi", "MorningStar Farms", "Bear Naked", "RXBar", "Pringles",
           "Cheez-It", "Pop-Tarts", "Eggo", "Kellogg" >>],
       [parent |-> "Mars", penalty |-> -10,
        brands |-> <<
           "M&M's", "Snickers", "Skittles", "Twix", "Uncle Ben's",
           "Pedigree", "Whiskas", "Mars" >>],
       [parent |-> "Mondelez", penalty |-> -10,
        brands |-> <<
           "Oreo", "Chips Ahoy", "Ritz", "Triscuit", "Wheat Thins",
           "Cadbury", "Toblerone", "Philadelphia" >>],
       [parent |-> "Coca-Cola", penalty |-> -12,
        brands |-> <<
           "Minute Maid", "Simply", "Honest Tea", "vitaminwater",
           "Fairlife", "Topo Chico", "Costa Coffee", "Coca-Cola", "Coke" >>],
       [parent |-> "ConAgra", penalty |-> -10,
        brands |-> <<
           "Healthy Choice", "Marie Callender's", "Hunt's", "PAM",
           "Slim Jim", "Chef Boyardee", "Banquet", "ConAgra" >>],
       [parent |-> "Unilever", penalty |-> -8,
        brands |-> <<
           "Ben & Jerry's", "Hellmann's", "Knorr", "Lipton", "Breyers",
           "Magnum", "Talenti", "Unilever" >>]
    >>

NOVA_4_MARKERS ==
    <<
      "high fructose corn syrup", "hfcs", "maltodextrin", "hydrogenated",
      "partially hydrogenated", "isolated protein", "modified starch",
      "modified food starch", "interesterified", "hydrolysed",
      "hydrolyzed", "artificial flavor", "natural flavor", "emulsifier",
      "humectant", "flavor enhancer", "colors", "dyes", "artificial color",
      "anti-caking", "bulking agent", "carbonating", "foaming",
      "gelling agent", "glazing agent", "enriched", "refined", "bleached",
      "tbhq", "bha", "bht", "sodium benzoate", "potassium sorbate",
      "calcium propionate", "yellow 5", "yellow 6", "red 40", "red 3",
      "blue 1", "blue 2", "caramel color", "corn syrup", "invert sugar",
      "glucose syrup", "dextrose", "maltose"
    >>

\* The keys of HIDDEN_TRUTHS; its texts are pairwise different, so a text is
\* named by its key
HIDDEN_TRUTHS ==
    {
      "ractopamine", "potassium bromate", "GRAS_unknown",
      "natural_flavors", "BHA", "BHT", "brominated_vegetable_oil",
      "azodicarbonamide", "red_3", "partially_hydrogenated"
    }

(***************************************************************************)
(* calculate_v4_score (src/main.py 1533-1798).  Python floats are modelled *)
(* as exact fractions num/den; the emoji that open the alert texts are     *)
(* written as a word in parentheses.                                       *)
(***************************************************************************)
\* for key, data in table.items(): if key in ing_lower: ... break
\* The index of the first entry whose key occurs in ing_lower, 0 if none does
RECURSIVE FirstMatch(_, _, _)
FirstMatch(table, ing_lower, i) ==
    IF i > Len(table) THEN 0
    ELSE IF Contains(ing_lower, table[i].key) THEN i
    ELSE FirstMatch(table, ing_lower, i + 1)

\* An entry that never carries a narrative
TruthOfNothing(hidden_truth_key) == None

\* HIDDEN_TRUTHS.get(hidden_truth_key) if hidden_truth_key else None
TruthOf(hidden_truth_key) ==
    IF hidden_truth_key # None /\ hidden_truth_key[1] \in HIDDEN_TRUTHS
    THEN hidden_truth_key
    ELSE None

\* GradeIngredient with the tables checked from the mildest to the worst
GradeIngredientMildestFirst(ingredient) ==
    LET ing_lower == lower(ingredient)
        t1 == FirstMatch(TIER_1_AVOID, ing_lower, 1)
        t2 == FirstMatch(TIER_2_LIMIT, ing_lower, 1)
        t3 == FirstMatch(TIER_3_CAUTION, ing_lower, 1)
        t4 == FirstMatch(TIER_4_SAFE, ing_lower, 1)
    IN  IF t4 > 0
        THEN [entry |-> [name |-> ingredient, grade |-> TIER_4_SAFE[t4].grade,
                         color |-> IF TIER_4_SAFE[t4].grade = "A"
                                   THEN "#22c55e" ELSE "#4ade80",
                         hazard_score |-> IF TIER_4_SAFE[t4].grade = "A"
                                          THEN 95 ELSE 80,
                         hidden_truth |-> None],
              alert |-> None]
        ELSE IF t3 > 0
        THEN [entry |-> [name |-> ingredient, grade |-> "C", color |-> "#facc15",
                         hazard_score |-> 55,
                         hidden_truth |-> TruthOf(TIER_3_CAUTION[t3].hidden_truth)],
              alert |-> None]
        ELSE IF t2 > 0
        THEN [entry |-> [name |-> ingredient, grade |-> "D", color |-> "#f97316",
                         hazard_score |-> 35, hidden_truth |-> None],
              alert |-> Some("(orange) LIMIT: " \o ingredient)]
        ELSE IF t1 > 0
        THEN [entry |-> [name |-> ingredient, grade |-> "F", color |-> "#ef4444",
                         hazard_score |-> 0,
                         hidden_truth |-> TruthOf(TIER_1_AVOID[t1].hidden_truth)],
              alert |-> Some("(red) AVOID: " \o ingredient)]
        ELSE [entry |-> [name |-> ingredient, grade |-> "C", color |-> "#facc15",
                         hazard_score |-> 60,
                         hidden_truth |-> TruthOf(Some("GRAS_unknown"))],
              alert |-> None]

\* One round of the ingredient loop (1567-1638): the entry appended to
\* ingredients_graded and the alert appended to alerts, if any
GradeIngredient(ingredient) ==
    LET ing_lower == lower(ingredient)
        t1 == FirstMatch(TIER_1_AVOID, ing_lower, 1)
        t2 == FirstMatch(TIER_2_LIMIT, ing_lower, 1)
        t3 == FirstMatch(TIER_3_CAUTION, ing_lower, 1)
        t4 == FirstMatch(TIER_4_SAFE, ing_lower, 1)
    IN  IF t1 > 0
        THEN [entry |-> [name |-> ingredient, grade |-> "F", color |-> "#ef4444",
                         hazard_score |-> 0,
                         hidden_truth |-> TruthOf(TIER_1_AVOID[t1].hidden_truth)],
              alert |-> Some("(red) AVOID: " \o ingredient)]
        ELSE IF t2 > 0
        THEN [entry |-> [name |-> ingredient, grade |-> "D", color |-> "#f97316",
                         hazard_score |-> 35, hidden_truth |-> None],
              alert |-> Some("(orange) LIMIT: " \o ingredient)]
        ELSE IF t3 > 0
        THEN [entry |-> [name |-> ingredient, grade |-> "C", color |-> "#facc15",
                         hazard_score |-> 55,
                         hidden_truth |-> TruthOf(TIER_3_CAUTION[t3].hidden_truth)],
              alert |-> None]
        ELSE IF t4 > 0
        THEN [entry |-> [name |-> ingredient, grade |-> TIER_4_SAFE[t4].grade,
                         color |-> IF TIER_4_SAFE[t4].grade = "A"
                                   THEN "#22c55e" ELSE "#4ade80",
                         hazard_score |-> IF TIER_4_SAFE[t4].grade = "A"
                                          THEN 95 ELSE 80,
                         hidden_truth |-> None],
              alert |-> None]
        ELSE [entry |-> [name |-> ingredient, grade |-> "C", color |-> "#facc15",
                         hazard_score |-> 60,
                         hidden_truth |-> TruthOf(Some("GRAS_unknown"))],
              alert |-> None]

\* any(marker in ing_lower for marker in NOVA_4_MARKERS) (1652-1657)
HasNovaMarker(ingredient) ==
    \E i \in 1..Len(NOVA_4_MARKERS) : Contains(lower(ingredient), NOVA_4_MARKERS[i])

\* The markers found in one ingredient when the loop does not break
NovaMarkersContained(ingredient) ==
    Cardinality({i \in 1..Len(NOVA_4_MARKERS) :
                    Contains(lower(ingredient), NOVA_4_MARKERS[i])})

\* What one ingredient adds to nova_markers_found: the inner loop breaks at
\* the first marker (1654-1657)
NovaMarkersCounted(ingredient) == IF HasNovaMarker(ingredient) THEN 1 ELSE 0

\* (1659-1669)
ProcessingScore(nova_markers_found) ==
    IF nova_markers_found >= 5 THEN 20
    ELSE IF nova_markers_found >= 3 THEN 40
    ELSE IF nova_markers_found >= 1 THEN 60
    ELSE 90

monoculture_keywords == <<"corn", "soy", "palm", "canola">>

\* (1725-1730)
IsMonoculture(ingredient) ==
    \E i \in 1..Len(monoculture_keywords) :
        Contains(lower(ingredient), monoculture_keywords[i])

\* The first parent company one of whose brands occurs in the lowered brand
\* (1676-1708), 0 if there is none
RECURSIVE CorporateMatch(_, _)
CorporateMatch(brand, i) ==
    IF i > Len(CORPORATE_PENALTIES) THEN 0
    ELSE IF \E b \in 1..Len(CORPORATE_PENALTIES[i].brands) :
               Contains(brand, lower(CORPORATE_PENALTIES[i].brands[b]))
         THEN i
         ELSE CorporateMatch(brand, i + 1)

certifications ==
    <<"organic", "fair trade", "non-gmo", "rainforest alliance", "b-corp",
      "usda organic">>

\* repr of a str that holds no double quote and no backslash
ReprStr(s) ==
    IF Contains(s, "'") THEN "\"" \o s \o "\"" ELSE "'" \o s \o "'"

RECURSIVE ReprItems(_, _)
ReprItems(list, i) ==
    IF i > Len(list) THEN ""
    ELSE (IF i > 1 THEN ", " ELSE "") \o ReprStr(list[i]) \o ReprItems(list, i + 1)

\* str(product_data) of a dict with these four keys
StrOfProduct(product_data) ==
    "{'product_name': " \o ReprStr(product_data.product_name)
       \o ", 'brand': " \o ReprStr(product_data.brand)
       \o ", 'category': " \o ReprStr(product_data.category)
       \o ", 'ingredients': [" \o ReprItems(product_data.ingredients, 1) \o "]}"

\* sum(...) of a list of numbers
RECURSIVE SumSeq(_, _)
SumSeq(list, i) == IF i > Len(list) THEN 0 ELSE list[i] + SumSeq(list, i + 1)

Clamp(x) == IF x < 0 THEN 0 ELSE IF x > 100 THEN 100 ELSE x

\* RoundHalfEven that drops the fraction
RoundDown(num, den) == num \div den

\* round(num/den) for num >= 0, den > 0: to the nearest integer, a half to
\* the even neighbour
RoundHalfEven(num, den) ==
    LET q == num \div den
        r == num % den
    IN  IF 2 * r < den THEN q
        ELSE IF 2 * r > den THEN q + 1
        ELSE IF q % 2 = 0 THEN q ELSE q + 1

\* The entries in the order of the input
InputOrder(graded) == graded

\* ingredients_graded.sort(key=grade_order): a stable sort, F D C B A
SortWorstFirst(graded) ==
    SelectSeq(graded, LAMBDA e : e.grade = "F")
       \o SelectSeq(graded, LAMBDA e : e.grade = "D")
       \o SelectSeq(graded, LAMBDA e : e.grade \notin {"F", "D", "B", "A"})
       \o SelectSeq(graded, LAMBDA e : e.grade = "B")
       \o SelectSeq(graded, LAMBDA e : e.grade = "A")

\* The narratives of the entries from the i-th on, each as often as it occurs
IngredientTruthsRepeated(graded, i, hidden_truths) ==
    LET told == SelectSeq(SubSeq(graded, i, Len(graded)),
                          LAMBDA e : e.hidden_truth # None)
    IN  hidden_truths \o [k \in 1..Len(told) |-> told[k].hidden_truth[1]]

\* The hidden truths the ingredient loop collects: each text once (1626-1628)
RECURSIVE IngredientTruths(_, _, _)
IngredientTruths(graded, i, hidden_truths) ==
    IF i > Len(graded) THEN hidden_truths
    ELSE IF /\ graded[i].hidden_truth # None
            /\ \A k \in 1..Len(hidden_truths) :
                  hidden_truths[k] # graded[i].hidden_truth[1]
         THEN IngredientTruths(graded, i + 1,
                               Append(hidden_truths, graded[i].hidden_truth[1]))
         ELSE IngredientTruths(graded, i + 1, hidden_truths)

\* The alerts the ingredient loop collects (1584, 1596)
RECURSIVE IngredientAlerts(_, _)
IngredientAlerts(rounds, i) ==
    IF i > Len(rounds) THEN <<>>
    ELSE (IF rounds[i].alert # None THEN <<rounds[i].alert[1]>> ELSE <<>>)
            \o IngredientAlerts(rounds, i + 1)

\* WorstTierCap with the tiers tested mildest first
WorstTierCapMildestFirst(has_f_grade, has_d_grade, has_c_grade) ==
    IF has_c_grade THEN Some([cap |-> 69, grade |-> "C"])
    ELSE IF has_d_grade THEN Some([cap |-> 49, grade |-> "D"])
    ELSE IF has_f_grade THEN Some([cap |-> 29, grade |-> "F"])
    ELSE None

\* The cap of the worst tier present and the grade it is named after
\* (1755-1766); None when no ingredient is graded F, D or C
WorstTierCap(has_f_grade, has_d_grade, has_c_grade) ==
    IF has_f_grade THEN Some([cap |-> 29, grade |-> "F"])
    ELSE IF has_d_grade THEN Some([cap |-> 49, grade |-> "D"])
    ELSE IF has_c_grade THEN Some([cap |-> 69, grade |-> "C"])
    ELSE None

\* GradeOfScore with the D band starting at 29
GradeOfScoreDFrom29(overall_score) ==
    IF overall_score >= 95 THEN "A+"
    ELSE IF overall_score >= 85 THEN "A"
    ELSE IF overall_score >= 70 THEN "B"
    ELSE IF overall_score >= 50 THEN "C"
    ELSE IF overall_score >= 29 THEN "D"
    ELSE "F"

\* (1771-1782)
GradeOfScore(overall_score) ==
    IF overall_score >= 95 THEN "A+"
    ELSE IF overall_score >= 85 THEN "A"
    ELSE IF overall_score >= 70 THEN "B"
    ELSE IF overall_score >= 50 THEN "C"
    ELSE IF overall_score >= 30 THEN "D"
    ELSE "F"

(***************************************************************************)
(* Bounds                                                                  *)
(***************************************************************************)
\* start_deep_research calls over the whole run
MaxHandlers == 2

\* calls and background tasks that have started and not yet finished
MaxInFlight == 1

MaxNow == 1

\* the longest ingredient list handed to calculate_v4_score
MaxIngredients == 3

(***************************************************************************)
(* Inputs of calculate_v4_score                                            *)
(***************************************************************************)
\* One ingredient or more of every tier, and one no table knows
IngredientNames ==
    {"Red 3", "aspartame", "High Fructose Corn Syrup", "soybean oil",
     "palm oil", "quinoa", "sea salt", "Water"}

Brands == {"TestBrand", "Annie's Homegrown", ""}

ProductNames ==
    {"Snack Mix",
     "USDA Organic Fair Trade Non-GMO Rainforest Alliance B-Corp Granola"}

\* Ingredients that hold keys of two tiers, the empty string, and ingredients
\* with a processing marker
ExtraNames ==
    {"Partially Hydrogenated Soybean Oil", "Salted Butter with BHA",
     "Organic Cane Sugar, Red 40", "Natural Flavors (Water, Citric Acid)",
     "Dextrose, Red 3", "", "Maltodextrin", "Enriched Flour", "Dextrose"}

\* Lists of these: one ingredient each, and four to six ingredients of which
\* three to six hold a processing marker
ExtraIngredientLists ==
    {<<e>> : e \in ExtraNames}
       \cup {<<"", "quinoa", "soybean oil">>,
             <<"Red 3", "High Fructose Corn Syrup", "Maltodextrin",
               "Enriched Flour">>,
             <<"Red 3", "High Fructose Corn Syrup", "Maltodextrin",
               "Enriched Flour", "Dextrose">>,
             <<"Water", "Red 3", "High Fructose Corn Syrup", "Maltodextrin",
               "Enriched Flour", "Dextrose">>,
             <<"Partially Hydrogenated Soybean Oil", "High Fructose Corn Syrup",
               "Water", "sea salt", "quinoa">>,
             <<"Maltodextrin", "Enriched Flour", "Dextrose",
               "High Fructose Corn Syrup", "Dextrose, Red 3",
               "Organic Cane Sugar, Red 40">>}

ProductInputs ==
    [product_name : ProductNames, brand : Brands, category : {"food"},
     ingredients : UNION {[1..k -> IngredientNames] : k \in 0..MaxIngredients}
                      \cup ExtraIngredientLists]

\* What the loops of calculate_v4_score find out about one ingredient,
\* worked out once for every ingredient of the model
IngredientFacts ==
    [ingredient \in IngredientNames \cup ExtraNames |->
        [round |-> GradeIngredient(ingredient),
         nova |-> NovaMarkersCounted(ingredient),
         monoculture |-> IsMonoculture(ingredient)]]

\* brand = product_data.get("brand", "").lower() and the parent company the
\* loop over CORPORATE_PENALTIES finds for it, worked out once for every
\* brand of the model
BrandOwners == [brand \in Brands |-> CorporateMatch(lower(brand), 1)]

\* calculate_v4_score for a product whose brand is among Brands and whose
\* ingredients are among IngredientNames and ExtraNames
calculate_v4_score(product_data) ==
    LET ingredients == product_data.ingredients
        n == Len(ingredients)
        rounds == [i \in 1..n |-> IngredientFacts[ingredients[i]].round]
        graded == [i \in 1..n |-> rounds[i].entry]
        ingredient_scores == [i \in 1..n |-> graded[i].hazard_score]
        \* ingredient_safety_score = safety_num / safety_den
        safety_num == IF n > 0 THEN SumSeq(ingredient_scores, 1) ELSE 50
        safety_den == IF n > 0 THEN n ELSE 1
        nova_markers_found ==
            SumSeq([i \in 1..n |-> IngredientFacts[ingredients[i]].nova], 1)
        processing_score == ProcessingScore(nova_markers_found)
        owner == BrandOwners[product_data.brand]
        corporate_score ==
            Clamp(IF owner > 0 THEN 70 + CORPORATE_PENALTIES[owner].penalty ELSE 70)
        product_str == lower(StrOfProduct(product_data))
        certified ==
            Cardinality({c \in 1..Len(certifications) :
                            Contains(product_str, certifications[c])})
        monoculture_count ==
            Cardinality({i \in 1..n : IngredientFacts[ingredients[i]].monoculture})
        supply_chain_score ==
            Clamp(50 + 10 * certified - (IF monoculture_count >= 3 THEN 15 ELSE 0))
        \* overall_score = overall_num / overall_den before the caps
        overall_den == 100 * safety_den
        overall_num ==
            40 * safety_num
               + safety_den * (25 * processing_score + 20 * corporate_score
                                  + 15 * supply_chain_score)
        has_f_grade == \E i \in 1..n : graded[i].grade = "F"
        has_d_grade == \E i \in 1..n : graded[i].grade = "D"
        has_c_grade == \E i \in 1..n : graded[i].grade = "C"
        worst == WorstTierCap(has_f_grade, has_d_grade, has_c_grade)
        \* min(overall_score, cap)
        capped_num ==
            IF worst # None /\ overall_num > worst[1].cap * overall_den
            THEN worst[1].cap * overall_den
            ELSE overall_num
        overall_score == Clamp(RoundHalfEven(capped_num, overall_den))
        alerts_before_cap ==
            IngredientAlerts(rounds, 1)
               \o (IF nova_markers_found >= 5
                   THEN <<"(factory) ULTRA-PROCESSED: " \o ToString(nova_markers_found)
                             \o " processing markers detected">>
                   ELSE IF nova_markers_found >= 3
                   THEN <<"(warning) HIGHLY PROCESSED: " \o ToString(nova_markers_found)
                             \o " processing markers">>
                   ELSE <<>>)
               \o (IF owner > 0
                   THEN <<"(pin) OWNED BY: " \o CORPORATE_PENALTIES[owner].parent>>
                   ELSE <<>>)
               \o (IF monoculture_count >= 3
                   THEN <<"(grain) MONOCULTURE ALERT: " \o ToString(monoculture_count)
                             \o " industrial ingredients">>
                   ELSE <<>>)
        cap_alert ==
            IF /\ worst # None
               /\ \A k \in 1..Len(alerts_before_cap) :
                     ~Contains(alerts_before_cap[k], "(scales) SCORE CAPPED")
            THEN <<"(scales) SCORE CAPPED: Product cannot score above "
                      \o worst[1].grade \o " due to " \o worst[1].grade
                      \o "-grade ingredients">>
            ELSE <<>>
        hidden_truths ==
            IngredientTruths(graded, 1, <<>>)
               \o (IF nova_markers_found >= 5
                   THEN <<"ULTRA_PROCESSED_TRUTH count=" \o ToString(nova_markers_found)>>
                   ELSE <<>>)
               \o (IF owner > 0
                   THEN <<"CORPORATE OWNERSHIP ALERT " \o product_data.brand
                             \o " is owned by " \o CORPORATE_PENALTIES[owner].parent>>
                   ELSE <<>>)
               \o (IF monoculture_count >= 3 THEN <<"MONOCULTURE_TRUTH">> ELSE <<>>)
    IN  [overall_score |-> overall_score,
         overall_grade |-> GradeOfScore(overall_score),
         dimension_scores |->
             [ingredient_safety |-> RoundHalfEven(safety_num, safety_den),
              processing_level |-> processing_score,
              corporate_ethics |-> corporate_score,
              supply_chain |-> supply_chain_score],
         ingredients_graded |-> SortWorstFirst(graded),
         alerts |-> alerts_before_cap \o cap_alert,
         hidden_truths |-> hidden_truths,
         parent_company |->
             IF owner > 0 THEN Some(CORPORATE_PENALTIES[owner].parent) ELSE None,
         corporate_disclosure |->
             IF owner > 0
             THEN Some([parent_company |-> CORPORATE_PENALTIES[owner].parent,
                        penalty_applied |-> CORPORATE_PENALTIES[owner].penalty])
             ELSE None]

(***************************************************************************)
(* Inputs of the deep-research API                                         *)
(***************************************************************************)
\* DeepResearchRequest: brand is Optional[str]
Requests ==
    { [product_name |-> "Disinfecting Wipes Lemon Fresh", brand |-> Some("Clorox"),
       category |-> "cleaning", ingredients |-> <<"water">>],
      [product_name |-> "Oreo Cookies", brand |-> None,
       category |-> "food", ingredients |-> <<"sugar", "palm oil">>] }

\* What client.messages.create can do: raise, answer with a text, or answer
\* with an empty content list
ApiOutcomes ==
    { [kind |-> "raise", text |-> "Connection error."],
      [kind |-> "empty", text |-> ""],
      [kind |-> "ok", text |-> "intro\n## Summary\nRisky\n## Actions\n Avoid "] }

(***************************************************************************)
(* Job store helpers (src/main.py 1805-1840)                               *)
(***************************************************************************)
save_job(js, job_id, job_data) ==
    [j \in DOMAIN js \cup {job_id} |-> IF j = job_id THEN job_data ELSE js[j]]

get_job(js, job_id) == IF job_id \in DOMAIN js THEN Some(js[job_id]) ELSE None

\* update_job_progress that stores a job for an id the store does not hold
update_job_progress_upsert(js, job_id, progress, current_step) ==
    LET job_data ==
            IF job_id \in DOMAIN js THEN js[job_id]
            ELSE [job_id |-> job_id, status |-> "processing", progress |-> 0,
                  current_step |-> "", created_at |-> 0, result |-> None,
                  error |-> None, completed_at |-> None]
    IN  save_job(js, job_id, [job_data EXCEPT !.progress = progress,
                                              !.current_step = current_step])

update_job_progress(js, job_id, progress, current_step) ==
    IF get_job(js, job_id) # None
    THEN save_job(js, job_id, [js[job_id] EXCEPT !.progress = progress,
                                                 !.current_step = current_step])
    ELSE js

\* complete_job that leaves the result out of the stored job
complete_job_without_result(js, job_id, result, t) ==
    IF job_id \in DOMAIN js
    THEN [js EXCEPT ![job_id].status = "completed",
                    ![job_id].progress = 100,
                    ![job_id].current_step = "Complete",
                    ![job_id].completed_at = Some(t)]
    ELSE js

complete_job(js, job_id, result, t) ==
    IF get_job(js, job_id) # None
    THEN save_job(js, job_id, [js[job_id] EXCEPT !.status = "completed",
                                                 !.progress = 100,
                                                 !.current_step = "Complete",
                                                 !.result = Some(result),
                                                 !.completed_at = Some(t)])
    ELSE js

\* fail_job that does not stamp completed_at
fail_job_without_stamp(js, job_id, error, t) ==
    IF job_id \in DOMAIN js
    THEN [js EXCEPT ![job_id].status = "failed",
                    ![job_id].error = Some(error)]
    ELSE js

fail_job(js, job_id, error, t) ==
    IF get_job(js, job_id) # None
    THEN save_job(js, job_id, [js[job_id] EXCEPT !.status = "failed",
                                                 !.error = Some(error),
                                                 !.completed_at = Some(t)])
    ELSE js

(***************************************************************************)
(* Report section parsing of the worker (src/main.py 1905-1920)            *)
(***************************************************************************)
\* text.split('\n')
RECURSIVE SplitLines(_, _)
SplitLines(s, cur) ==
    IF Len(s) = 0 THEN <<cur>>
    ELSE IF CharAt(s, 1) = "\n" THEN <<cur>> \o SplitLines(SubSeq(s, 2, Len(s)), "")
    ELSE SplitLines(SubSeq(s, 2, Len(s)), cur \o CharAt(s, 1))

\* '\n'.join(lines)
RECURSIVE JoinLines(_)
JoinLines(lines) ==
    IF Len(lines) = 0 THEN ""
    ELSE IF Len(lines) = 1 THEN lines[1]
    ELSE lines[1] \o "\n" \o JoinLines(Tail(lines))

\* The loop over the lines; a current_section of None and of '' are both falsy
\* and are both written "".
RECURSIVE ParseLines(_, _, _, _)
ParseLines(lines, current_section, current_content, sections) ==
    IF Len(lines) = 0
    THEN IF current_section # ""
         THEN DictSet(sections, current_section, strip(JoinLines(current_content)))
         ELSE sections
    ELSE IF StartsAt(lines[1], 1, "## ")
         THEN ParseLines(Tail(lines),
                         strip(SubSeq(lines[1], 4, Len(lines[1]))),
                         <<>>,
                         IF current_section # ""
                         THEN DictSet(sections, current_section,
                                      strip(JoinLines(current_content)))
                         ELSE sections)
         ELSE ParseLines(Tail(lines), current_section,
                         Append(current_content, lines[1]), sections)

ParseSections(report_text) ==
    ParseLines(SplitLines(report_text, ""), "", <<>>, EmptyDict)

(***************************************************************************)
(* State                                                                   *)
(***************************************************************************)
VARIABLES
    jobs,        \* DEEP_RESEARCH_JOBS: job id -> DeepResearchJob
    workers,     \* unfinished background tasks process_deep_research, by job id
    handlers,    \* start_deep_research calls that have not returned yet
    numCalls,    \* number of calls made to the service so far
    returned,    \* what the call that ended in the latest step returned, else None
    research,    \* table cached_deep_research: cache_key -> row
    db_pool,     \* TRUE when init_db created the connection pool
    client,      \* TRUE when the Anthropic client is configured
    now,         \* the clock behind NOW() and datetime.utcnow()
    nextJob,     \* number of uuid4 job ids handed out so far
    wipe,        \* position of the wipe_cache handler
    products,    \* table cached_products: cache_key -> row
    scans,       \* get_product_analysis calls that have not returned yet
    product_data, \* the argument of a pending calculate_v4_score call, else None
    key_args,    \* the arguments of the latest normalize_cache_key call, else None
    flat,        \* the flat scoring of one analysed product, else None
    pdfs         \* get_deep_research_pdf calls that have not returned yet

vars == <<jobs, workers, handlers, numCalls, returned, research, db_pool,
          client, now, nextJob, wipe, products, scans, product_data,
          key_args, flat, pdfs>>

\* The state of the deep-research jobs
jobSide == <<jobs, workers, handlers, nextJob>>

\* str(uuid.uuid4()): a fresh id on every call
Uuid(n) == "job-" \o ToString(n)

SyntheticId(cache_key) == "cached_" \o cache_key

\* cache_key = normalize_cache_key(request.brand or "", request.product_name),
\* worked out once for every request of the model
RequestKeys ==
    [request \in Requests |->
        normalize_cache_key(OrElse(request.brand, ""), request.product_name)]

RequestKey(request) == RequestKeys[request]

\* The sections of every report text of the model
ReportTexts ==
    {o.text : o \in ApiOutcomes} \cup {"## Summary\nSafe", "## Summary\nRisky"}

SectionsOf == [text \in ReportTexts |-> ParseSections(text)]

\* PendingJob that marks the job as started already
PendingJobStarted(job_id, t) ==
    [job_id |-> job_id, status |-> "processing", progress |-> 10,
     current_step |-> "Initializing deep research...",
     created_at |-> t, result |-> None, error |-> None, completed_at |-> None]

\* The job record start_deep_research stores on a cache miss (2982-2995)
PendingJob(job_id, t) ==
    [job_id |-> job_id, status |-> "pending", progress |-> 0,
     current_step |-> "Initializing deep research...",
     created_at |-> t, result |-> None, error |-> None, completed_at |-> None]

\* CachedJob that stores the synthetic job the way a fresh one is stored
CachedJobAsFresh(job_id, cached_result) ==
    [job_id |-> job_id, status |-> "pending", progress |-> 0,
     current_step |-> "Report ready (cached)",
     created_at |-> cached_result.generated_at, result |-> Some(cached_result),
     error |-> None, completed_at |-> Some(cached_result.generated_at)]

\* The job record start_deep_research stores on a cache hit (2955-2966)
CachedJob(job_id, cached_result) ==
    [job_id |-> job_id, status |-> "completed", progress |-> 100,
     current_step |-> "Report ready (cached)",
     created_at |-> cached_result.generated_at, result |-> Some(cached_result),
     error |-> None, completed_at |-> Some(cached_result.generated_at)]

\* The dict get_cached_deep_research builds from a row (2486-2494)
CachedResult(row) ==
    [product_name |-> row.product_name, brand |-> Some(row.brand),
     category |-> row.category, report |-> row.report,
     full_report |-> row.full_report, generated_at |-> row.created_at,
     cached |-> TRUE]

\* The result dict of the worker (1923-1930); it has no "cached" entry
WorkerResult(request, report_text, t) ==
    [product_name |-> request.product_name, brand |-> request.brand,
     category |-> request.category, report |-> SectionsOf[report_text],
     full_report |-> report_text, generated_at |-> t, cached |-> FALSE]

\* INSERT ... ON CONFLICT (cache_key) DO UPDATE of save_deep_research_to_cache:
\* a conflicting row keeps its name, brand, category, pdf and created_at
UpsertResearch(tbl, cache_key, product_name, brand, category, report, full_report, t) ==
    IF cache_key \in DOMAIN tbl
    THEN [tbl EXCEPT ![cache_key].report = report,
                     ![cache_key].full_report = full_report,
                     ![cache_key].updated_at = t]
    ELSE DictSet(tbl, cache_key,
                 [product_name |-> product_name, brand |-> brand,
                  category |-> category, report |-> report,
                  full_report |-> full_report, pdf_bytes |-> None,
                  created_at |-> t, updated_at |-> t])

(***************************************************************************)
(* Deep-research cache helpers (src/main.py 2469-2530).  A helper returns  *)
(* [raised, value, table]: raised is TRUE when an exception leaves it.     *)
(* pool is db_pool; ok is FALSE when the statement sent to the database    *)
(* raises.                                                                 *)
(***************************************************************************)
get_cached_deep_research(tbl, pool, ok, cache_key) ==
    IF ~pool THEN [raised |-> FALSE, value |-> None]
    ELSE IF ~ok THEN [raised |-> FALSE, value |-> None]
    ELSE IF cache_key \in DOMAIN tbl
         THEN [raised |-> FALSE, value |-> Some(CachedResult(tbl[cache_key]))]
         ELSE [raised |-> FALSE, value |-> None]

save_deep_research_to_cache(tbl, pool, ok, cache_key, product_name, brand, category, report, full_report, t) ==
    IF ~pool THEN [raised |-> FALSE, value |-> FALSE, table |-> tbl]
    ELSE IF ~ok THEN [raised |-> FALSE, value |-> FALSE, table |-> tbl]
    ELSE [raised |-> FALSE, value |-> TRUE,
          table |-> UpsertResearch(tbl, cache_key, product_name, brand,
                                   category, report, full_report, t)]

(***************************************************************************)
(* process_deep_research (src/main.py 1846-1948)                           *)
(***************************************************************************)
\* ProgressSteps with the supply chain and the regulatory step exchanged
ProgressStepsExchanged ==
    << [progress |-> 10, current_step |-> "Preparing comprehensive analysis..."],
       [progress |-> 20, current_step |-> "Analyzing ingredients database..."],
       [progress |-> 30, current_step |-> "Researching corporate ownership..."],
       [progress |-> 70, current_step |-> "Checking regulatory history..."],
       [progress |-> 50, current_step |-> "Investigating supply chain..."],
       [progress |-> 85, current_step |-> "Finding better alternatives..."],
       [progress |-> 95, current_step |-> "Generating recommendations..."] >>

\* The update_job_progress calls of the worker, in program order
ProgressSteps ==
    << [progress |-> 10, current_step |-> "Preparing comprehensive analysis..."],
       [progress |-> 20, current_step |-> "Analyzing ingredients database..."],
       [progress |-> 30, current_step |-> "Researching corporate ownership..."],
       [progress |-> 50, current_step |-> "Investigating supply chain..."],
       [progress |-> 70, current_step |-> "Checking regulatory history..."],
       [progress |-> 85, current_step |-> "Finding better alternatives..."],
       [progress |-> 95, current_step |-> "Generating recommendations..."] >>

\* dict.pop: the entry of a task or call that has finished is dropped
Without(d, k) == [x \in DOMAIN d \ {k} |-> d[x]]

\* The task BackgroundTasks holds after add_task: no step has run
ScheduledWorker(request, cache_key) ==
    [pc |-> 0, request |-> request, cache_key |-> cache_key,
     response |-> None, calls |-> 0]

Progressed(js, job_id, n) ==
    update_job_progress(js, job_id, ProgressSteps[n].progress,
                        ProgressSteps[n].current_step)

\* Raised without the except clause: the task ends and nothing marks the job
RaisedUnhandled(job_id, w, message) ==
    /\ jobs' = Progressed(jobs, job_id, w.pc + 1)
    /\ workers' = Without(workers, job_id)

\* except Exception as e: fail_job(job_id, str(e)); the task ends
Raised(job_id, w, message) ==
    /\ jobs' = fail_job(Progressed(jobs, job_id, w.pc + 1), job_id, message, now)
    /\ workers' = Without(workers, job_id)

\* Steps 1-3: a progress update, then asyncio.sleep
WorkerPrepare(job_id) ==
    /\ job_id \in DOMAIN workers
    /\ workers[job_id].pc \in 0..2
    /\ jobs' = Progressed(jobs, job_id, workers[job_id].pc + 1)
    /\ workers' = [workers EXCEPT ![job_id].pc = @ + 1]
    /\ UNCHANGED <<handlers, numCalls, research, db_pool, client, now,
                   nextJob, wipe, products>>
    /\ returned' = None
    /\ UNCHANGED scans
    /\ UNCHANGED <<product_data, key_args, flat, pdfs>>

\* Step 4: progress 50, then the check of the API client
WorkerCheckClient(job_id) ==
    /\ job_id \in DOMAIN workers
    /\ workers[job_id].pc = 3
    /\ IF client
       THEN /\ jobs' = Progressed(jobs, job_id, 4)
            /\ workers' = [workers EXCEPT ![job_id].pc = 4]
       ELSE Raised(job_id, workers[job_id], "Anthropic API key not configured")
    /\ UNCHANGED <<handlers, numCalls, research, db_pool, client, now,
                   nextJob, wipe, products>>
    /\ returned' = None
    /\ UNCHANGED scans
    /\ UNCHANGED <<product_data, key_args, flat, pdfs>>

\* Progress 70, then the blocking call client.messages.create, which ends
\* with the outcome o
WorkerCallApiWith(job_id, o) ==
    /\ job_id \in DOMAIN workers
    /\ workers[job_id].pc = 4
    /\ IF o.kind = "raise"
       THEN Raised(job_id, workers[job_id], o.text)
       ELSE /\ jobs' = Progressed(jobs, job_id, 5)
            /\ workers' = [workers EXCEPT ![job_id].pc = 5,
                                          ![job_id].calls = @ + 1,
                                          ![job_id].response = Some(o)]
    /\ UNCHANGED <<handlers, numCalls, research, db_pool, client, now,
                   nextJob, wipe, products>>
    /\ returned' = None
    /\ UNCHANGED scans
    /\ UNCHANGED <<product_data, key_args, flat, pdfs>>

WorkerCallApi(job_id) == \E o \in ApiOutcomes : WorkerCallApiWith(job_id, o)

\* Step 5: progress 85, then response.content[0].text
WorkerReadResponse(job_id) ==
    /\ job_id \in DOMAIN workers
    /\ workers[job_id].pc = 5
    /\ IF workers[job_id].response[1].kind = "empty"
       THEN Raised(job_id, workers[job_id], "list index out of range")
       ELSE /\ jobs' = Progressed(jobs, job_id, 6)
            /\ workers' = [workers EXCEPT ![job_id].pc = 6]
    /\ UNCHANGED <<handlers, numCalls, research, db_pool, client, now,
                   nextJob, wipe, products>>
    /\ returned' = None
    /\ UNCHANGED scans
    /\ UNCHANGED <<product_data, key_args, flat, pdfs>>

\* Steps 6-8: progress 95, parse, complete_job, then the call of
\* save_deep_research_to_cache, which returns at once without a pool
WorkerComplete(job_id) ==
    /\ job_id \in DOMAIN workers
    /\ workers[job_id].pc = 6
    /\ LET w == workers[job_id]
           result == WorkerResult(w.request, w.response[1].text, now)
       IN  /\ jobs' = complete_job(Progressed(jobs, job_id, 7), job_id, result, now)
           /\ workers' = IF db_pool
                         THEN [workers EXCEPT ![job_id].pc = 7]
                         ELSE Without(workers, job_id)
    /\ UNCHANGED <<handlers, numCalls, research, db_pool, client, now,
                   nextJob, wipe, products>>
    /\ returned' = None
    /\ UNCHANGED scans
    /\ UNCHANGED <<product_data, key_args, flat, pdfs>>

\* The INSERT of save_deep_research_to_cache runs (ok) or raises; a failing
\* statement is logged and the write is dropped
WorkerSaveToCache(job_id, ok) ==
    /\ job_id \in DOMAIN workers
    /\ workers[job_id].pc = 7
    /\ LET w == workers[job_id] IN
       research' = save_deep_research_to_cache(
                       research, db_pool, ok, w.cache_key,
                       w.request.product_name,
                       OrElse(w.request.brand, "Unknown"),
                       w.request.category,
                       SectionsOf[w.response[1].text],
                       w.response[1].text, now).table
    /\ workers' = Without(workers, job_id)
    /\ UNCHANGED <<jobs, handlers, numCalls, db_pool, client, now, nextJob,
                   wipe, products>>
    /\ returned' = None
    /\ UNCHANGED scans
    /\ UNCHANGED <<product_data, key_args, flat, pdfs>>

(***************************************************************************)
(* start_deep_research (src/main.py 2926-3005)                             *)
(***************************************************************************)
\* Cache miss: store the PENDING job, hand the worker to BackgroundTasks and
\* return the handle
MissResponse(job_id) ==
    [fn |-> "start_deep_research", job_id |-> job_id, status |-> "pending",
     cached |-> FALSE]

HitResponse(job_id) ==
    [fn |-> "start_deep_research", job_id |-> job_id, status |-> "completed",
     cached |-> TRUE]

InFlight == Cardinality(DOMAIN handlers) + Cardinality(DOMAIN workers)

\* The call arrives.  Without a pool get_cached_deep_research returns None
\* without suspending, so the miss path runs to the return in the same step;
\* with a pool the handler suspends on the SELECT.
StartDeepResearch(request) ==
    /\ numCalls < MaxHandlers
    /\ InFlight < MaxInFlight
    /\ numCalls' = numCalls + 1
    /\ LET cache_key == RequestKey(request)
           job_id == Uuid(nextJob + 1)
       IN  IF db_pool
           THEN /\ handlers' = DictSet(handlers, numCalls + 1,
                                       [pc |-> "select", request |-> request,
                                        cache_key |-> cache_key, cached |-> None])
                /\ UNCHANGED <<jobs, workers, nextJob>>
                /\ returned' = None
           ELSE /\ jobs' = save_job(jobs, job_id, PendingJob(job_id, now))
                /\ workers' = DictSet(workers, job_id,
                                      ScheduledWorker(request, cache_key))
                /\ nextJob' = nextJob + 1
                /\ returned' = Some(MissResponse(job_id))
                /\ UNCHANGED handlers
    /\ UNCHANGED <<research, db_pool, client, now, wipe, products>>
    /\ UNCHANGED scans
    /\ UNCHANGED <<product_data, key_args, flat, pdfs>>

\* The SELECT of get_cached_deep_research runs in the database (ok) or
\* raises; a failing statement is logged and the lookup returns None
DeepResearchSelect(h, ok) ==
    /\ h \in DOMAIN handlers
    /\ handlers[h].pc = "select"
    /\ handlers' = [handlers EXCEPT
                      ![h].pc = "resume",
                      ![h].cached =
                          get_cached_deep_research(research, db_pool, ok,
                                                   handlers[h].cache_key).value]
    /\ UNCHANGED <<jobs, workers, numCalls, research, db_pool, client, now,
                   nextJob, wipe, products>>
    /\ returned' = None
    /\ UNCHANGED scans
    /\ UNCHANGED <<product_data, key_args, flat, pdfs>>

\* The handler resumes with the lookup's answer and runs to its return
DeepResearchResume(h) ==
    /\ h \in DOMAIN handlers
    /\ handlers[h].pc = "resume"
    /\ handlers' = Without(handlers, h)
    /\ IF handlers[h].cached # None
       THEN LET job_id == SyntheticId(handlers[h].cache_key) IN
            /\ jobs' = save_job(jobs, job_id, CachedJob(job_id, handlers[h].cached[1]))
            /\ returned' = Some(HitResponse(job_id))
            /\ UNCHANGED <<workers, nextJob>>
       ELSE LET job_id == Uuid(nextJob + 1) IN
            /\ jobs' = save_job(jobs, job_id, PendingJob(job_id, now))
            /\ workers' = DictSet(workers, job_id,
                                  ScheduledWorker(handlers[h].request,
                                                  handlers[h].cache_key))
            /\ returned' = Some(MissResponse(job_id))
            /\ nextJob' = nextJob + 1
    /\ UNCHANGED <<numCalls, research, db_pool, client, now, wipe, products>>
    /\ UNCHANGED scans
    /\ UNCHANGED <<product_data, key_args, flat, pdfs>>

(***************************************************************************)
(* get_job_status, cleanup_old_jobs, wipe_cache                            *)
(***************************************************************************)
\* DELETE /api/v4/admin/cleanup-jobs
CleanupOldJobs ==
    /\ jobs # EmptyDict
    /\ jobs' = EmptyDict
    /\ UNCHANGED <<workers, handlers, numCalls, research, db_pool, client,
                   now, nextJob, wipe, products>>
    /\ returned' = None
    /\ UNCHANGED scans
    /\ UNCHANGED <<product_data, key_args, flat, pdfs>>

\* POST /api/admin/cache/wipe with a valid admin key: DELETE FROM
\* cached_products, DELETE FROM cached_deep_research, then the job store is
\* cleared.  A statement that raises ends the call with a 500 and leaves the
\* rest undone; when the first one raises nothing has changed.
WipeCacheProducts ==
    /\ db_pool
    /\ wipe = "idle"
    /\ products' = EmptyDict
    /\ wipe' = "research"
    /\ UNCHANGED <<jobs, workers, handlers, numCalls, research, db_pool,
                   client, now, nextJob>>
    /\ returned' = None
    /\ UNCHANGED scans
    /\ UNCHANGED <<product_data, key_args, flat, pdfs>>

WipeCacheResearch(ok) ==
    /\ wipe = "research"
    /\ wipe' = "idle"
    /\ IF ok
       THEN research' = EmptyDict /\ jobs' = EmptyDict
       ELSE research' = research /\ jobs' = jobs
    /\ UNCHANGED <<workers, handlers, numCalls, db_pool, client, now,
                   nextJob, products>>
    /\ returned' = None
    /\ UNCHANGED scans
    /\ UNCHANGED <<product_data, key_args, flat, pdfs>>

(***************************************************************************)
(* Environment: the clock                                                  *)
(***************************************************************************)
Tick ==
    /\ now < MaxNow
    /\ now' = now + 1
    /\ UNCHANGED <<jobs, workers, handlers, numCalls, research, db_pool,
                   client, nextJob, wipe, products>>
    /\ returned' = None
    /\ UNCHANGED scans
    /\ UNCHANGED <<product_data, key_args, flat, pdfs>>

(***************************************************************************)
(* Scoring cache and get_product_analysis (src/main.py 2193-2420, 2576-2624) *)
(***************************************************************************)
\* INTERVAL '7 days'; the clock counts days
FreshDays == 7

\* calls of get_product_analysis and of the cache helpers over the whole run
MaxScans == 2

\* the last day the clock reaches
MaxDay == 8

\* get_product_analysis calls that have started and not yet returned
MaxScansInFlight == 2

\* What the vision step hands to get_product_analysis
ScanRequests ==
    { [product_name |-> "Disinfecting Wipes Lemon Fresh", brand |-> "Clorox",
       category |-> "cleaning", visible_ingredients |-> <<>>],
      [product_name |-> "Disinfecting Wipes - 12ct", brand |-> "Clorox",
       category |-> "cleaning", visible_ingredients |-> <<"water">>] }

\* What the call of client.messages.create in research_product can do: raise,
\* answer without a JSON object, or answer with a JSON report
ResearchOutcomes ==
    { [kind |-> "raise", result |-> None],
      [kind |-> "nojson", result |-> None],
      [kind |-> "json",
       result |-> Some([product_name |-> "Clorox Disinfecting Wipes",
                        overall_score |-> 42, overall_grade |-> "D",
                        alerts |-> <<"Contains quats">>])],
      [kind |-> "json",
       result |-> Some([product_name |-> "Clorox Disinfecting Wipes",
                        overall_score |-> 55, overall_grade |-> "C",
                        alerts |-> <<>>])] }

\* cache_key = normalize_cache_key(brand, product_name), worked out once for
\* every request of the model
ScanKeys ==
    [request \in ScanRequests |->
        normalize_cache_key(request.brand, request.product_name)]

\* FallbackResult that reports the failed research as the worst score
FallbackResultWorst(product_name) ==
    [product_name |-> product_name, overall_score |-> 0, overall_grade |-> "F",
     alerts |-> <<"Research temporarily unavailable">>]

\* The fallback response of research_product (2401-2420)
FallbackResult(product_name) ==
    [product_name |-> product_name, overall_score |-> 50, overall_grade |-> "C",
     alerts |-> <<"Research temporarily unavailable">>]

\* research_product: the parsed report, or the fallback when the call raises
\* or no JSON object is found
research_product(outcome, product_name) ==
    IF outcome.kind = "json" THEN outcome.result[1]
    ELSE FallbackResult(product_name)

\* ScoringSelect that takes a row exactly 7 days old for fresh
ScoringSelectInclusive(tbl, ok, cache_key, t) ==
    IF ~ok THEN [raised |-> TRUE, row |-> None]
    ELSE IF cache_key \in DOMAIN tbl /\ tbl[cache_key].updated_at >= t - FreshDays
         THEN [raised |-> FALSE, row |-> Some(tbl[cache_key])]
         ELSE [raised |-> FALSE, row |-> None]

\* SELECT data, updated_at FROM cached_products WHERE cache_key = $1 AND
\* updated_at > NOW() - INTERVAL '7 days'
ScoringSelect(tbl, ok, cache_key, t) ==
    IF ~ok THEN [raised |-> TRUE, row |-> None]
    ELSE IF cache_key \in DOMAIN tbl /\ tbl[cache_key].updated_at > t - FreshDays
         THEN [raised |-> FALSE, row |-> Some(tbl[cache_key])]
         ELSE [raised |-> FALSE, row |-> None]

\* ScoringUpsert whose DO UPDATE leaves data = $4 out
ScoringUpsertStampOnly(tbl, ok, cache_key, product_name, brand, data, t) ==
    IF ~ok THEN [raised |-> TRUE, table |-> tbl]
    ELSE IF cache_key \in DOMAIN tbl
         THEN [raised |-> FALSE,
               table |-> [tbl EXCEPT ![cache_key].updated_at = t]]
         ELSE [raised |-> FALSE,
               table |-> DictSet(tbl, cache_key,
                                 [product_name |-> product_name, brand |-> brand,
                                  data |-> data, updated_at |-> t])]

\* INSERT INTO cached_products ... ON CONFLICT (cache_key) DO UPDATE SET
\* data = $4, updated_at = NOW()
ScoringUpsert(tbl, ok, cache_key, product_name, brand, data, t) ==
    IF ~ok THEN [raised |-> TRUE, table |-> tbl]
    ELSE IF cache_key \in DOMAIN tbl
         THEN [raised |-> FALSE,
               table |-> [tbl EXCEPT ![cache_key].data = data,
                                     ![cache_key].updated_at = t]]
         ELSE [raised |-> FALSE,
               table |-> DictSet(tbl, cache_key,
                                 [product_name |-> product_name, brand |-> brand,
                                  data |-> data, updated_at |-> t])]

\* Logged without the except clause: the exception goes on to the caller
NotCaught(outcome) == outcome

\* except Exception as e: logger.warning(...) around the cache check and
\* around the cache save: the exception ends there
Logged(outcome) == [outcome EXCEPT !.raised = FALSE]

\* The response of get_product_analysis; raised is TRUE when an exception
\* leaves the function
ScanResponse(raised, source, body, cache_key) ==
    [fn |-> "get_product_analysis", raised |-> raised, source |-> source,
     body |-> body, cache_key |-> cache_key]

\* A call without a connection pool: no statement is sent, the product is
\* researched and the result returned, all without suspending
ScanWithoutPool(request, outcome) ==
    /\ ~db_pool
    /\ numCalls < MaxScans
    /\ numCalls' = numCalls + 1
    /\ returned' = Some(ScanResponse(FALSE, "research",
                                     research_product(outcome, request.product_name),
                                     ScanKeys[request]))
    /\ UNCHANGED <<scans, products, research, db_pool, client, now, wipe>>
    /\ UNCHANGED jobSide
    /\ UNCHANGED <<product_data, key_args, flat, pdfs>>

\* A call with a pool suspends on the SELECT
ScanArrive(request) ==
    /\ db_pool
    /\ numCalls < MaxScans
    /\ Cardinality(DOMAIN scans) < MaxScansInFlight
    /\ numCalls' = numCalls + 1
    /\ scans' = DictSet(scans, numCalls + 1,
                        [pc |-> "select", request |-> request,
                         cache_key |-> ScanKeys[request],
                         readFailed |-> FALSE, result |-> None])
    /\ returned' = None
    /\ UNCHANGED <<products, research, db_pool, client, now, wipe>>
    /\ UNCHANGED jobSide
    /\ UNCHANGED <<product_data, key_args, flat, pdfs>>

\* The SELECT runs (ok) or raises.  A row returns its payload; no row, or a
\* logged failure, leads to research_product and on to the INSERT.
ScanSelect(h, ok, outcome) ==
    /\ h \in DOMAIN scans
    /\ scans[h].pc = "select"
    /\ LET read == ScoringSelect(products, ok, scans[h].cache_key, now)
           seen == Logged(read)
       IN  IF seen.raised
           THEN /\ returned' = Some(ScanResponse(TRUE, "none", None,
                                                 scans[h].cache_key))
                /\ scans' = Without(scans, h)
           ELSE IF seen.row # None
           THEN /\ returned' = Some(ScanResponse(FALSE, "cache", seen.row[1].data,
                                                 scans[h].cache_key))
                /\ scans' = Without(scans, h)
           ELSE /\ scans' = [scans EXCEPT
                               ![h].pc = "insert",
                               ![h].readFailed = read.raised,
                               ![h].result =
                                   Some(research_product(
                                            outcome, scans[h].request.product_name))]
                /\ returned' = None
    /\ UNCHANGED <<numCalls, products, research, db_pool, client, now, wipe>>
    /\ UNCHANGED jobSide
    /\ UNCHANGED <<product_data, key_args, flat, pdfs>>

\* The INSERT runs (ok) or raises and is logged; the result is returned
ScanInsert(h, ok) ==
    /\ h \in DOMAIN scans
    /\ scans[h].pc = "insert"
    /\ LET write == Logged(ScoringUpsert(products, ok, scans[h].cache_key,
                                         scans[h].request.product_name,
                                         scans[h].request.brand,
                                         scans[h].result[1], now))
       IN  /\ products' = write.table
           /\ returned' = IF write.raised
                          THEN Some(ScanResponse(TRUE, "none", None,
                                                 scans[h].cache_key))
                          ELSE Some(ScanResponse(FALSE, "research",
                                                 scans[h].result[1],
                                                 scans[h].cache_key))
    /\ scans' = Without(scans, h)
    /\ UNCHANGED <<numCalls, research, db_pool, client, now, wipe>>
    /\ UNCHANGED jobSide
    /\ UNCHANGED <<product_data, key_args, flat, pdfs>>

\* The two deep-research cache helpers called on their own
HelperKeys == {"clorox:disinfecting wipes"}

HelperReports == {"## Summary\nSafe", "## Summary\nRisky"}

CallGetCachedDeepResearch(cache_key, ok) ==
    /\ numCalls < MaxScans
    /\ numCalls' = numCalls + 1
    /\ LET r == get_cached_deep_research(research, db_pool, ok, cache_key) IN
       returned' = Some([fn |-> "get_cached_deep_research",
                         cache_key |-> cache_key,
                         failed |-> ~db_pool \/ ~ok,
                         raised |-> r.raised,
                         value |-> r.value])
    /\ UNCHANGED <<scans, products, research, db_pool, client, now, wipe>>
    /\ UNCHANGED jobSide
    /\ UNCHANGED <<product_data, key_args, flat, pdfs>>

CallSaveDeepResearch(cache_key, full_report, ok) ==
    /\ numCalls < MaxScans
    /\ numCalls' = numCalls + 1
    /\ LET r == save_deep_research_to_cache(research, db_pool, ok, cache_key,
                                            "Disinfecting Wipes", "Clorox",
                                            "cleaning", SectionsOf[full_report],
                                            full_report, now)
       IN  /\ research' = r.table
           /\ returned' = Some([fn |-> "save_deep_research_to_cache",
                                cache_key |-> cache_key,
                                failed |-> ~db_pool \/ ~ok,
                                raised |-> r.raised,
                                value |-> r.value])
    /\ UNCHANGED <<scans, products, db_pool, client, now, wipe>>
    /\ UNCHANGED jobSide
    /\ UNCHANGED <<product_data, key_args, flat, pdfs>>

\* The clock of the scoring path, one day at a time
TickDay ==
    /\ now < MaxDay
    /\ now' = now + 1
    /\ returned' = None
    /\ UNCHANGED <<scans, numCalls, products, research, db_pool, client, wipe>>
    /\ UNCHANGED jobSide
    /\ UNCHANGED <<product_data, key_args, flat, pdfs>>

(***************************************************************************)
(* The deep-research service                                               *)
(***************************************************************************)
\* db_pool is None when DATABASE_URL is unset or the connection failed at
\* startup; client is None when ANTHROPIC_API_KEY is unset
Init ==
    /\ jobs = EmptyDict
    /\ workers = EmptyDict
    /\ handlers = EmptyDict
    /\ numCalls = 0
    /\ returned = None
    /\ research = EmptyDict
    /\ products = EmptyDict
    /\ db_pool \in BOOLEAN
    /\ client \in BOOLEAN
    /\ now = 0
    /\ nextJob = 0
    /\ wipe = "idle"
    /\ scans = EmptyDict
    /\ product_data = None
    /\ key_args = None
    /\ flat = None
    /\ pdfs = EmptyDict

Next ==
    \/ \E request \in Requests : StartDeepResearch(request)
    \/ \E h \in DOMAIN handlers, ok \in BOOLEAN : DeepResearchSelect(h, ok)
    \/ \E h \in DOMAIN handlers : DeepResearchResume(h)
    \/ \E job_id \in DOMAIN workers : WorkerPrepare(job_id)
    \/ \E job_id \in DOMAIN workers : WorkerCheckClient(job_id)
    \/ \E job_id \in DOMAIN workers : WorkerCallApi(job_id)
    \/ \E job_id \in DOMAIN workers : WorkerReadResponse(job_id)
    \/ \E job_id \in DOMAIN workers : WorkerComplete(job_id)
    \/ \E job_id \in DOMAIN workers, ok \in BOOLEAN : WorkerSaveToCache(job_id, ok)
    \/ CleanupOldJobs
    \/ WipeCacheProducts
    \/ \E ok \in BOOLEAN : WipeCacheResearch(ok)
    \/ Tick

Spec == Init /\ [][Next]_vars

\* The next step of the background task of one job, whichever it is
WorkerStep(job_id) ==
    \/ WorkerPrepare(job_id)
    \/ WorkerCheckClient(job_id)
    \/ WorkerCallApi(job_id)
    \/ WorkerReadResponse(job_id)
    \/ WorkerComplete(job_id)
    \/ \E ok \in BOOLEAN : WorkerSaveToCache(job_id, ok)

\* The ids uuid.uuid4() hands out over the run
JobIds == {Uuid(n) : n \in 1..MaxHandlers}

\* The service with its scheduling: the event loop runs every task handed to
\* BackgroundTasks, asyncio.sleep ends, and client.messages.create returns or
\* raises, so a task that can take its next step takes it
NextLive ==
    \/ \E request \in Requests : StartDeepResearch(request)
    \/ \E h \in DOMAIN handlers, ok \in BOOLEAN : DeepResearchSelect(h, ok)
    \/ \E h \in DOMAIN handlers : DeepResearchResume(h)
    \/ \E job_id \in DOMAIN workers : WorkerStep(job_id)
    \/ CleanupOldJobs

SpecLive ==
    Init /\ [][NextLive]_vars /\ \A job_id \in JobIds : WF_vars(WorkerStep(job_id))

(***************************************************************************)
(* The PDF endpoint: get_deep_research_pdf, the pdf_bytes column of        *)
(* cached_deep_research and wipe_pdf_cache (src/main.py 2533-2573,         *)
(* 3029-3360)                                                              *)
(***************************************************************************)
\* get_deep_research_pdf calls that have started and not yet returned
MaxPdfInFlight == 1

\* What client.messages.create answers in the runs of the PDF endpoint: one
\* of two report texts, or it raises
PdfApiOutcomes ==
    { [kind |-> "raise", text |-> "Connection error."],
      [kind |-> "ok", text |-> "## Summary\nSafe"],
      [kind |-> "ok", text |-> "## Summary\nRisky"] }

\* The ids a client can ask a PDF for: of jobs created on a miss and of the
\* synthetic jobs of a hit
PdfJobIds == JobIds \cup {SyntheticId(RequestKey(request)) : request \in Requests}

\* generate_deep_research_pdf_reportlab: the bytes of the PDF, as what is
\* printed in it; the brand is printed when there is one
Render(result) ==
    [product_name |-> result.product_name, by |-> OrElse(result.brand, ""),
     category |-> result.category, report |-> result.report,
     full_report |-> result.full_report, generated_at |-> result.generated_at]

\* The (brand, product_name) pairs a stored result can hold with a brand:
\* the brand of the request, or "Unknown" read back from the cache
PdfKeyArgs ==
    {<<OrElse(request.brand, "Unknown"), request.product_name>> :
        request \in Requests}

\* normalize_cache_key worked out once for each of these pairs
PdfKeys == [a \in PdfKeyArgs |-> normalize_cache_key(a[1], a[2])]

\* cache_key = normalize_cache_key(result.get("brand", ""),
\* result.get("product_name", "")): the result always has the entry "brand",
\* so a brand of None reaches brand.lower() and raises AttributeError
pdf_cache_key(result) ==
    IF result.brand = None
    THEN [raised |-> TRUE, value |-> ""]
    ELSE [raised |-> FALSE, value |-> PdfKeys[<<result.brand[1], result.product_name>>]]

\* SELECT pdf_bytes FROM cached_deep_research WHERE cache_key = $1 AND
\* pdf_bytes IS NOT NULL; None without a pool or when the statement raises
get_cached_pdf_bytes(tbl, pool, ok, cache_key) ==
    IF ~pool \/ ~ok THEN None
    ELSE IF cache_key \in DOMAIN tbl THEN tbl[cache_key].pdf_bytes
    ELSE None

\* UPDATE cached_deep_research SET pdf_bytes = $1, updated_at = NOW() WHERE
\* cache_key = $2; nothing is written without a pool, when the statement
\* raises, or when no row has the key
save_pdf_bytes_to_cache(tbl, pool, ok, cache_key, pdf_bytes, t) ==
    IF ~pool \/ ~ok THEN tbl
    ELSE IF cache_key \in DOMAIN tbl
         THEN [tbl EXCEPT ![cache_key].pdf_bytes = Some(pdf_bytes),
                          ![cache_key].updated_at = t]
         ELSE tbl

\* The response of get_deep_research_pdf: the HTTP status, whether an
\* exception other than HTTPException left the handler, the key it derived
\* and the PDF it sent
PdfResponse(job_id, status, raised, cache_key, pdf) ==
    [fn |-> "get_deep_research_pdf", job_id |-> job_id, status |-> status,
     raised |-> raised, cache_key |-> cache_key, pdf |-> pdf]

\* The call arrives and runs to its first await.  404 for an unknown id, 400
\* for a job that is not COMPLETED, 500 for one without a result; then the
\* key is derived.  Without a pool both cache helpers return at once, so the
\* PDF is rendered and sent in the same step; with a pool the handler
\* suspends on the SELECT.
GetDeepResearchPdf(job_id) ==
    /\ Cardinality(DOMAIN pdfs) < MaxPdfInFlight
    /\ LET job_data == get_job(jobs, job_id) IN
       IF job_data = None
       THEN returned' = Some(PdfResponse(job_id, 404, FALSE, None, None))
               /\ pdfs' = pdfs
       ELSE IF job_data[1].status # "completed"
       THEN returned' = Some(PdfResponse(job_id, 400, FALSE, None, None))
               /\ pdfs' = pdfs
       ELSE IF job_data[1].result = None
       THEN returned' = Some(PdfResponse(job_id, 500, FALSE, None, None))
               /\ pdfs' = pdfs
       ELSE LET result == job_data[1].result[1]
                key == pdf_cache_key(result)
            IN  IF key.raised
                THEN returned' = Some(PdfResponse(job_id, 500, TRUE, None, None))
                        /\ pdfs' = pdfs
                ELSE IF ~db_pool
                THEN returned' = Some(PdfResponse(job_id, 200, FALSE,
                                                  Some(key.value),
                                                  Some(Render(result))))
                        /\ pdfs' = pdfs
                ELSE /\ pdfs' = DictSet(pdfs,
                                        CHOOSE h \in 1..MaxPdfInFlight :
                                            h \notin DOMAIN pdfs,
                                        [pc |-> "select", job_id |-> job_id,
                                         result |-> result,
                                         cache_key |-> key.value,
                                         pdf_bytes |-> None])
                     /\ returned' = None
    /\ UNCHANGED <<jobs, workers, handlers, nextJob, numCalls, research,
                   db_pool, client, now, wipe, products, scans>>
    /\ UNCHANGED <<product_data, key_args, flat>>

\* The SELECT of get_cached_pdf_bytes runs (ok) or raises and is logged.
\* Stored bytes are sent as they are; otherwise the PDF is rendered from the
\* result the handler read and the handler suspends on the UPDATE.
PdfSelect(h, ok) ==
    /\ h \in DOMAIN pdfs
    /\ pdfs[h].pc = "select"
    /\ LET cached_pdf ==
               get_cached_pdf_bytes(research, db_pool, ok, pdfs[h].cache_key)
       IN  IF cached_pdf # None
           THEN /\ returned' = Some(PdfResponse(pdfs[h].job_id, 200, FALSE,
                                                Some(pdfs[h].cache_key),
                                                cached_pdf))
                /\ pdfs' = Without(pdfs, h)
           ELSE /\ pdfs' = [pdfs EXCEPT
                              ![h].pc = "update",
                              ![h].pdf_bytes = Some(Render(pdfs[h].result))]
                /\ returned' = None
    /\ UNCHANGED <<jobs, workers, handlers, nextJob, numCalls, research,
                   db_pool, client, now, wipe, products, scans>>
    /\ UNCHANGED <<product_data, key_args, flat>>

\* The UPDATE of save_pdf_bytes_to_cache runs (ok) or raises and is logged;
\* the rendered PDF is sent
PdfUpdate(h, ok) ==
    /\ h \in DOMAIN pdfs
    /\ pdfs[h].pc = "update"
    /\ research' = save_pdf_bytes_to_cache(research, db_pool, ok,
                                           pdfs[h].cache_key,
                                           pdfs[h].pdf_bytes[1], now)
    /\ returned' = Some(PdfResponse(pdfs[h].job_id, 200, FALSE,
                                    Some(pdfs[h].cache_key), pdfs[h].pdf_bytes))
    /\ pdfs' = Without(pdfs, h)
    /\ UNCHANGED <<jobs, workers, handlers, nextJob, numCalls, db_pool,
                   client, now, wipe, products, scans>>
    /\ UNCHANGED <<product_data, key_args, flat>>

\* POST /api/admin/cache/wipe-pdf with a valid admin key: UPDATE
\* cached_deep_research SET pdf_bytes = NULL
WipePdfCache ==
    /\ db_pool
    /\ \E cache_key \in DOMAIN research : research[cache_key].pdf_bytes # None
    /\ research' = [cache_key \in DOMAIN research |->
                       [research[cache_key] EXCEPT !.pdf_bytes = None]]
    /\ returned' = None
    /\ UNCHANGED <<jobs, workers, handlers, nextJob, numCalls, db_pool,
                   client, now, wipe, products, scans>>
    /\ UNCHANGED <<product_data, key_args, flat, pdfs>>

NextPdf ==
    \/ \E request \in Requests : StartDeepResearch(request)
    \/ \E h \in DOMAIN handlers, ok \in BOOLEAN : DeepResearchSelect(h, ok)
    \/ \E h \in DOMAIN handlers : DeepResearchResume(h)
    \/ \E job_id \in DOMAIN workers : WorkerPrepare(job_id)
    \/ \E job_id \in DOMAIN workers : WorkerCheckClient(job_id)
    \/ \E job_id \in DOMAIN workers, o \in PdfApiOutcomes :
          WorkerCallApiWith(job_id, o)
    \/ \E job_id \in DOMAIN workers : WorkerReadResponse(job_id)
    \/ \E job_id \in DOMAIN workers : WorkerComplete(job_id)
    \/ \E job_id \in DOMAIN workers, ok \in BOOLEAN : WorkerSaveToCache(job_id, ok)
    \/ \E job_id \in PdfJobIds : GetDeepResearchPdf(job_id)
    \/ \E h \in DOMAIN pdfs, ok \in BOOLEAN : PdfSelect(h, ok)
    \/ \E h \in DOMAIN pdfs, ok \in BOOLEAN : PdfUpdate(h, ok)
    \/ WipePdfCache

SpecPdf == Init /\ [][NextPdf]_vars

(***************************************************************************)
(* The job helpers called directly for a job that has finished, as any    *)
(* caller inside the process can call them                                 *)
(***************************************************************************)
Terminal(job) == job.status \in {"completed", "failed"}

SimulatedResult ==
    [product_name |-> "Simulated", brand |-> None, category |-> "test",
     report |-> EmptyDict, full_report |-> "", generated_at |-> 0,
     cached |-> FALSE]

CallUpdateJobProgress(job_id) ==
    /\ job_id \in DOMAIN jobs
    /\ Terminal(jobs[job_id])
    /\ jobs' = update_job_progress(jobs, job_id, 50, "Simulated step")
    /\ jobs' # jobs
    /\ UNCHANGED <<workers, handlers, numCalls, research, db_pool, client,
                   now, nextJob, wipe, products>>
    /\ returned' = None
    /\ UNCHANGED scans
    /\ UNCHANGED <<product_data, key_args, flat, pdfs>>

CallCompleteJob(job_id) ==
    /\ job_id \in DOMAIN jobs
    /\ Terminal(jobs[job_id])
    /\ jobs' = complete_job(jobs, job_id, SimulatedResult, now)
    /\ jobs' # jobs
    /\ UNCHANGED <<workers, handlers, numCalls, research, db_pool, client,
                   now, nextJob, wipe, products>>
    /\ returned' = None
    /\ UNCHANGED scans
    /\ UNCHANGED <<product_data, key_args, flat, pdfs>>

CallFailJob(job_id) ==
    /\ job_id \in DOMAIN jobs
    /\ Terminal(jobs[job_id])
    /\ jobs' = fail_job(jobs, job_id, "Simulated failure", now)
    /\ jobs' # jobs
    /\ UNCHANGED <<workers, handlers, numCalls, research, db_pool, client,
                   now, nextJob, wipe, products>>
    /\ returned' = None
    /\ UNCHANGED scans
    /\ UNCHANGED <<product_data, key_args, flat, pdfs>>

(***************************************************************************)
(* The scoring service: get_product_analysis, the two tables, the admin    *)
(* wipe and the clock                                                      *)
(***************************************************************************)
NextScan ==
    \/ \E request \in ScanRequests, o \in ResearchOutcomes :
          ScanWithoutPool(request, o)
    \/ \E request \in ScanRequests : ScanArrive(request)
    \/ \E h \in DOMAIN scans, ok \in BOOLEAN, o \in ResearchOutcomes :
          ScanSelect(h, ok, o)
    \/ \E h \in DOMAIN scans, ok \in BOOLEAN : ScanInsert(h, ok)
    \/ \E k \in HelperKeys, ok \in BOOLEAN : CallGetCachedDeepResearch(k, ok)
    \/ \E k \in HelperKeys, t \in HelperReports, ok \in BOOLEAN :
          CallSaveDeepResearch(k, t, ok)
    \/ WipeCacheProducts
    \/ \E ok \in BOOLEAN : WipeCacheResearch(ok)
    \/ TickDay

\* research_product reaches a missing client inside its try block, so for
\* this path an unconfigured client is one more call that raises
InitScan == Init /\ client

SpecScan == InitScan /\ [][NextScan]_vars

NextCalls ==
    \/ Next
    \/ \E job_id \in DOMAIN jobs : CallUpdateJobProgress(job_id)
    \/ \E job_id \in DOMAIN jobs : CallCompleteJob(job_id)
    \/ \E job_id \in DOMAIN jobs : CallFailJob(job_id)

SpecCalls == Init /\ [][NextCalls]_vars

(***************************************************************************)
(* The scoring engine: calculate_v4_score applied to a product             *)
(***************************************************************************)
InitScore ==
    /\ jobs = EmptyDict
    /\ workers = EmptyDict
    /\ handlers = EmptyDict
    /\ numCalls = 0
    /\ returned = None
    /\ research = EmptyDict
    /\ products = EmptyDict
    /\ db_pool = FALSE
    /\ client = FALSE
    /\ now = 0
    /\ nextJob = 0
    /\ wipe = "idle"
    /\ scans = EmptyDict
    /\ product_data \in {Some(p) : p \in ProductInputs}
    /\ key_args = None
    /\ flat = None
    /\ pdfs = EmptyDict

CalculateV4Score ==
    /\ product_data # None
    /\ returned = None
    /\ returned' = Some([fn |-> "calculate_v4_score",
                         value |-> calculate_v4_score(product_data[1])])
    /\ UNCHANGED <<numCalls, research, db_pool, client, now, wipe, products,
                   scans, product_data, key_args, flat, pdfs>>
    /\ UNCHANGED jobSide

NextScore == CalculateV4Score

SpecScore == InitScore /\ [][NextScore]_vars

(***************************************************************************)
(* The cache key: normalize_cache_key applied to a brand and a product     *)
(* name, to the two segments of a key it returned, and to the same product *)
(* with a variant descriptor appended to its name                          *)
(***************************************************************************)
\* Variant descriptors appended to one product name in a row
MaxAppended == 1

KeyBrands == {"Clorox", "Dr. Bronner's", ""}

BaseNames ==
    {"Disinfecting Wipes", "Wipes (Lemon)", "Dish Soap 12.oz", "Formula 409",
     "All-Purpose Cleaner", "Hand Soap (Unscented)", "Simply Clean Spray",
     "Bleach"}

\* A scent word of variant_patterns, "original", a size or count token, free
\* text after a hyphen
VariantSuffixes ==
    {" Lemon", " Lavender", " Citrus", " Original", " 12 oz", " 24 ct",
     " 500ml", " - 12ct", " - Kitchen & Bath"}

KeyInputs ==
    {[brand |-> b, product_name |-> n, appended |-> 0] :
        b \in KeyBrands, n \in BaseNames}

\* The two segments of f"{brand_clean}:{name_clean}"
KeySegments(key) ==
    LET c == CHOOSE i \in 1..Len(key) :
                 CharAt(key, i) = ":" /\ \A j \in 1..(i - 1) : CharAt(key, j) # ":"
    IN  [brand |-> SubSeq(key, 1, c - 1),
         product_name |-> SubSeq(key, c + 1, Len(key))]

KeyReturn(args) ==
    Some([fn |-> "normalize_cache_key",
          value |-> normalize_cache_key(args.brand, args.product_name)])

InitKey ==
    /\ jobs = EmptyDict
    /\ workers = EmptyDict
    /\ handlers = EmptyDict
    /\ numCalls = 0
    /\ returned = None
    /\ research = EmptyDict
    /\ products = EmptyDict
    /\ db_pool = FALSE
    /\ client = FALSE
    /\ now = 0
    /\ nextJob = 0
    /\ wipe = "idle"
    /\ scans = EmptyDict
    /\ product_data = None
    /\ key_args \in {Some(a) : a \in KeyInputs}
    /\ flat = None
    /\ pdfs = EmptyDict

keyRest == <<jobs, workers, handlers, nextJob, numCalls, research, db_pool,
             client, now, wipe, products, scans, product_data, flat, pdfs>>

\* normalize_cache_key(brand, product_name)
NormalizeCacheKey ==
    /\ key_args # None
    /\ returned = None
    /\ returned' = KeyReturn(key_args[1])
    /\ UNCHANGED key_args
    /\ UNCHANGED keyRest

\* normalize_cache_key applied to the segments of the key just returned
NormalizeKeySegments ==
    /\ key_args # None
    /\ returned # None
    /\ LET seg == KeySegments(returned[1].value)
           args == [brand |-> seg.brand, product_name |-> seg.product_name,
                    appended |-> key_args[1].appended]
       IN  /\ args # key_args[1]
           /\ key_args' = Some(args)
           /\ returned' = KeyReturn(args)
    /\ UNCHANGED keyRest

\* normalize_cache_key applied to the same brand and the name with a variant
\* descriptor appended
NormalizeVariant(suffix) ==
    /\ key_args # None
    /\ returned # None
    /\ key_args[1].appended < MaxAppended
    /\ LET args == [brand |-> key_args[1].brand,
                    product_name |-> key_args[1].product_name \o suffix,
                    appended |-> key_args[1].appended + 1]
       IN  /\ key_args' = Some(args)
           /\ returned' = KeyReturn(args)
    /\ UNCHANGED keyRest

NextKey ==
    \/ NormalizeCacheKey
    \/ NormalizeKeySegments
    \/ \E suffix \in VariantSuffixes : NormalizeVariant(suffix)

SpecKey == InitKey /\ [][NextKey]_vars

(***************************************************************************)
(* The flat scoring path (src/main.py 1424-1526), called in a row by the   *)
(* V3 scan once the analysis has been enriched (2888-2901)                 *)
(***************************************************************************)
\* Ingredients in one analysis
MaxHazards == 3

\* Positive claims in one analysis
MaxClaims == 6

\* int(num / den) for den > 0: the fraction cut towards zero
Trunc(num, den) ==
    IF num >= 0 THEN num \div den ELSE 0 - ((0 - num) \div den)

Min(a, b) == IF a <= b THEN a ELSE b

\* dict.get(key, default); None when the dict has no such key
GetOr(opt, default) == IF opt = None THEN default ELSE opt[1]

\* calculate_ingredient_scores with the high band starting at 6
calculate_ingredient_scores_high_from_6(hazard_scores) ==
    IF Len(hazard_scores) = 0
    THEN [base_score |-> 100, penalty |-> 0, safety_score |-> 100]
    ELSE LET total_hazard == SumSeq(hazard_scores, 1)
             count == Len(hazard_scores)
             base_num == 100 * count - 10 * total_hazard
             high_concern_count ==
                 Cardinality({i \in 1..count : hazard_scores[i] >= 6})
             moderate_count ==
                 Cardinality({i \in 1..count :
                                 4 <= hazard_scores[i] /\ hazard_scores[i] < 6})
             penalty == high_concern_count * 5 + moderate_count * 2
             safety_num == base_num - penalty * count
         IN  [base_score |-> Trunc(base_num, count),
              penalty |-> penalty,
              safety_score |->
                  Trunc(IF safety_num < 0 THEN 0 ELSE safety_num, count)]

\* calculate_ingredient_scores for the hazard_score of every ingredient;
\* base_score is (100 * count - 10 * total_hazard) / count
calculate_ingredient_scores(hazard_scores) ==
    IF Len(hazard_scores) = 0
    THEN [base_score |-> 100, penalty |-> 0, safety_score |-> 100]
    ELSE LET total_hazard == SumSeq(hazard_scores, 1)
             count == Len(hazard_scores)
             base_num == 100 * count - 10 * total_hazard
             high_concern_count ==
                 Cardinality({i \in 1..count : hazard_scores[i] >= 7})
             moderate_count ==
                 Cardinality({i \in 1..count :
                                 4 <= hazard_scores[i] /\ hazard_scores[i] < 7})
             penalty == high_concern_count * 5 + moderate_count * 2
             safety_num == base_num - penalty * count
         IN  [base_score |-> Trunc(base_num, count),
              penalty |-> penalty,
              safety_score |->
                  Trunc(IF safety_num < 0 THEN 0 ELSE safety_num, count)]

\* apply_positive_bonuses with the bonus_points of every claim uncapped
apply_positive_bonuses_uncapped(score, bonus_points) ==
    IF Len(bonus_points) = 0 THEN score
    ELSE Clamp(score + SumSeq(bonus_points, 1))

\* apply_positive_bonuses for the bonus_points of every claim
apply_positive_bonuses(score, bonus_points) ==
    IF Len(bonus_points) = 0 THEN score
    ELSE Clamp(score + Min(SumSeq(bonus_points, 1), 15))

\* apply_condition_modifier with the weight of cookware for every category
apply_condition_modifier_cookware(score, condition, product_type) ==
    Clamp(score + Trunc(GetOr(condition, 100) * 15, 100))

\* apply_condition_modifier; condition is the 'score' entry of the dict,
\* None when the dict has none; the weight is 15/100 or 5/100
apply_condition_modifier(score, condition, product_type) ==
    LET condition_score == GetOr(condition, 100)
        weight_x100 == IF lower(product_type) = "cookware" THEN 15 ELSE 5
    IN  Clamp(score + Trunc(condition_score * weight_x100, 100))

HazardScores == {0, 3, 4, 6, 7, 10}

ConditionScores == {None, Some(20), Some(50), Some(60)}

ProductTypes == {"food", "cookware", "Cookware"}

\* What the V3 scan passes on: the hazard scores of the enriched
\* ingredients, the bonus_points of the positive attributes (3 each), the
\* condition score and the product type
FlatInputs ==
    [hazard_scores : UNION {[1..k -> HazardScores] : k \in 0..MaxHazards},
     bonus_points : {[i \in 1..n |-> 3] : n \in 0..MaxClaims},
     condition : ConditionScores,
     product_type : ProductTypes]

InitFlat ==
    /\ jobs = EmptyDict
    /\ workers = EmptyDict
    /\ handlers = EmptyDict
    /\ numCalls = 0
    /\ returned = None
    /\ research = EmptyDict
    /\ products = EmptyDict
    /\ db_pool = FALSE
    /\ client = FALSE
    /\ now = 0
    /\ nextJob = 0
    /\ wipe = "idle"
    /\ scans = EmptyDict
    /\ product_data = None
    /\ key_args = None
    /\ flat \in {Some(a) : a \in FlatInputs}
    /\ pdfs = EmptyDict

\* Lines 2888-2901: the three calls in a row
RecalculateScores ==
    /\ flat # None
    /\ returned = None
    /\ LET scoring_result == calculate_ingredient_scores(flat[1].hazard_scores)
           safety_with_bonuses ==
               apply_positive_bonuses(scoring_result.safety_score,
                                      flat[1].bonus_points)
           final_score ==
               apply_condition_modifier(safety_with_bonuses, flat[1].condition,
                                        flat[1].product_type)
       IN  returned' = Some([fn |-> "recalculate_scores",
                             scoring_result |-> scoring_result,
                             safety_with_bonuses |-> safety_with_bonuses,
                             final_score |-> final_score])
    /\ UNCHANGED <<numCalls, research, db_pool, client, now, wipe, products,
                   scans, product_data, key_args, flat, pdfs>>
    /\ UNCHANGED jobSide

NextFlat == RecalculateScores

SpecFlat == InitFlat /\ [][NextFlat]_vars

(***************************************************************************)
(* Properties of the scoring engine                                        *)
(***************************************************************************)
\* The grades calculate_v4_score gave the ingredients of the product
GradesIn(result) ==
    {result.ingredients_graded[i].grade : i \in 1..Len(result.ingredients_graded)}

\* C1: the overall_score calculate_v4_score returns is at most the cap of
\* the worst tier among the ingredients it graded: at most 29 with an F, at
\* most 49 with a D and no F, at most 69 with a C and neither F nor D.
C1_ScoreWithinWorstTierCap ==
    (returned # None /\ returned[1].fn = "calculate_v4_score") =>
        LET result == returned[1].value IN
        /\ Len(result.ingredients_graded) = Len(product_data[1].ingredients)
        /\ "F" \in GradesIn(result) => result.overall_score <= 29
        /\ ("D" \in GradesIn(result) /\ "F" \notin GradesIn(result)) =>
              result.overall_score <= 49
        /\ ("C" \in GradesIn(result) /\ GradesIn(result) \cap {"F", "D"} = {}) =>
              result.overall_score <= 69

\* A product with an F-grade ingredient whose four dimensions weigh in at
\* 30 or more has come back with exactly 29
C1_Witness ==
    /\ returned # None
    /\ returned[1].fn = "calculate_v4_score"
    /\ "F" \in GradesIn(returned[1].value)
    /\ returned[1].value.overall_score = 29
    /\ LET d == returned[1].value.dimension_scores IN
       40 * (d.ingredient_safety - 1) + 25 * d.processing_level
          + 20 * d.corporate_ethics + 15 * d.supply_chain >= 3000

(***************************************************************************)
(* Properties of the job state machine                                     *)
(***************************************************************************)
IsSynthetic(job_id) == StartsAt(job_id, 1, "cached_")

\* Jobs stored before and after a step
Kept == DOMAIN jobs \cap DOMAIN jobs'

\* C2: once a job is COMPLETED or FAILED, a later update_job_progress,
\* complete_job or fail_job call for its id changes nothing of the stored
\* job.  Stated for the jobs created on a cache miss, which only these three
\* functions write.
C2_TerminalWriteOnce ==
    [][\A j \in Kept :
          (~IsSynthetic(j) /\ Terminal(jobs[j])) => jobs'[j] = jobs[j]]_vars

LegalMove(old, new) ==
    \/ old = new
    \/ old = "pending" /\ new = "processing"
    \/ old = "processing" /\ new \in {"completed", "failed"}

\* C3: the status of a job created on a cache miss only moves along
\* PENDING -> PROCESSING -> COMPLETED or FAILED, and it is PROCESSING while
\* the worker issues its progress updates.
C3_StatusPath ==
    [][\A j \in Kept :
          ~IsSynthetic(j) =>
             /\ LegalMove(jobs[j].status, jobs'[j].status)
             /\ (jobs'[j].progress > 0 /\ ~Terminal(jobs'[j]))
                    => jobs'[j].status = "processing"]_vars

\* C4: a stored job has a result exactly when it is COMPLETED and an error
\* exactly when it is FAILED.
C4_ResultIffCompleted ==
    \A j \in DOMAIN jobs :
        /\ (jobs[j].result # None) <=> (jobs[j].status = "completed")
        /\ (jobs[j].error # None) <=> (jobs[j].status = "failed")

C4_Witness ==
    /\ \E j \in DOMAIN jobs : IsSynthetic(j) /\ jobs[j].result # None
    /\ \E j \in DOMAIN jobs : ~IsSynthetic(j) /\ jobs[j].status = "completed"

\* C5: the progress get_job reads for one job id never decreases from one
\* read to the next, starts at 0 for a created job and stays within 0..100.
C5_ProgressMonotone ==
    [][/\ \A j \in Kept : jobs'[j].progress >= jobs[j].progress
       /\ \A j \in DOMAIN jobs' :
             /\ jobs'[j].progress \in 0..100
             /\ (j \notin DOMAIN jobs /\ ~IsSynthetic(j)) => jobs'[j].progress = 0]_vars

C5_Witness ==
    \E j \in DOMAIN jobs : jobs[j].progress = 85 /\ ~Terminal(jobs[j])

\* C6: on a cache miss start_deep_research has stored the job as PENDING
\* with progress 0 and no result, error or completed_at when it returns the
\* handle, and the worker it scheduled has not run a step.
C6_CreateReturnsPending ==
    [][nextJob' # nextJob =>
         LET job_id == Uuid(nextJob') IN
         /\ returned' = Some([fn |-> "start_deep_research", job_id |-> job_id,
                              status |-> "pending", cached |-> FALSE])
         /\ job_id \in DOMAIN jobs'
         /\ jobs'[job_id].status = "pending"
         /\ jobs'[job_id].progress = 0
         /\ jobs'[job_id].result = None
         /\ jobs'[job_id].error = None
         /\ jobs'[job_id].completed_at = None
         /\ job_id \notin DOMAIN workers
         /\ job_id \in DOMAIN workers'
         /\ workers'[job_id].pc = 0]_vars

C6_Witness ==
    /\ returned # None
    /\ returned[1].fn = "start_deep_research"
    /\ ~returned[1].cached
    /\ returned[1].job_id \in DOMAIN jobs \cap DOMAIN workers
    /\ jobs[returned[1].job_id].status = "pending"
    /\ workers[returned[1].job_id].pc = 0

\* The message of the exception a worker at position pc can raise
RaisedMessages(pc) ==
    IF pc = 3 THEN {"Anthropic API key not configured"}
    ELSE IF pc = 4 THEN {o.text : o \in {x \in ApiOutcomes : x.kind = "raise"}}
    ELSE IF pc = 5 THEN {"list index out of range"}
    ELSE {}

\* C7: the terminal record reflects the worker's outcome.  A worker that
\* gets through report generation leaves its job COMPLETED with progress
\* 100, the result and completed_at; a worker that raises leaves it FAILED
\* with the message and completed_at; the external call is made at most
\* once; the finished record is not touched again.
C7_TerminalReflectsOutcome ==
    [][\A j \in DOMAIN workers :
          /\ (workers[j].pc = 6 /\ j \in DOMAIN jobs'
                /\ (j \notin DOMAIN workers' \/ workers'[j].pc = 7)) =>
                /\ jobs'[j].status = "completed"
                /\ jobs'[j].progress = 100
                /\ jobs'[j].result # None
                /\ jobs'[j].result[1].full_report = workers[j].response[1].text
                /\ jobs'[j].result[1].product_name = workers[j].request.product_name
                /\ jobs'[j].error = None
                /\ jobs'[j].completed_at # None
          /\ (workers[j].pc < 6 /\ j \notin DOMAIN workers' /\ j \in DOMAIN jobs') =>
                /\ jobs'[j].status = "failed"
                /\ jobs'[j].error # None
                /\ jobs'[j].error[1] \in RaisedMessages(workers[j].pc)
                /\ jobs'[j].result = None
                /\ jobs'[j].completed_at # None
          /\ (workers[j].pc = 7 /\ j \in Kept) => jobs'[j] = jobs[j]
          /\ workers[j].calls <= 1
          /\ (workers[j].calls = 1) => workers[j].pc > 4]_vars

C7_Witness ==
    \E j \in DOMAIN jobs :
        /\ jobs[j].status = "failed"
        /\ jobs[j].error = Some("Anthropic API key not configured")
        /\ jobs[j].progress = 50
        /\ j \notin DOMAIN workers

\* C8: when the lookup of start_deep_research finds a row, of any age, the
\* call schedules no worker and hands out no new job, and the id it returns
\* resolves to a COMPLETED job with progress 100, no error and the cached
\* report as result.
C8_CacheHitSyntheticJob ==
    [][\A h \in DOMAIN handlers :
          /\ (handlers[h].pc = "select" /\ h \in DOMAIN handlers'
                /\ handlers'[h].cached # None) =>
                /\ handlers[h].cache_key \in DOMAIN research
                /\ handlers'[h].cached[1].report
                      = research[handlers[h].cache_key].report
                /\ handlers'[h].cached[1].full_report
                      = research[handlers[h].cache_key].full_report
          /\ (handlers[h].pc = "resume" /\ handlers[h].cached # None
                /\ h \notin DOMAIN handlers') =>
                /\ workers' = workers
                /\ nextJob' = nextJob
                /\ returned' # None
                /\ returned'[1].fn = "start_deep_research"
                /\ returned'[1].cached
                /\ returned'[1].status = "completed"
                /\ LET job == get_job(jobs', returned'[1].job_id) IN
                   /\ job # None
                   /\ job[1].status = "completed"
                   /\ job[1].progress = 100
                   /\ job[1].error = None
                   /\ job[1].result = handlers[h].cached]_vars

C8_Witness ==
    /\ returned # None
    /\ returned[1].fn = "start_deep_research"
    /\ returned[1].cached
    /\ returned[1].job_id \in DOMAIN jobs
    /\ jobs[returned[1].job_id].created_at < now
    /\ jobs[returned[1].job_id].result # None
    /\ jobs[returned[1].job_id].result[1].report # EmptyDict

(***************************************************************************)
(* Properties of the two caches                                            *)
(***************************************************************************)
\* The results research_product can hand back for a request
Researched(request) ==
    {research_product(o, request.product_name) : o \in ResearchOutcomes}

\* The row of the scoring cache a SELECT at time t would find for the key
FreshRow(cache_key, t) ==
    /\ cache_key \in DOMAIN products
    /\ t - products[cache_key].updated_at < FreshDays

\* C9: with no connection pool, or when a cache statement raises, a read
\* counts as a miss and a write is dropped, and no error reaches the caller:
\* get_product_analysis never raises and returns the researched result, a
\* failed write leaves the table as it was, and the deep-research cache
\* helpers return None and False without raising and without writing.
C9_BestEffortCache ==
    [][/\ (returned' # None /\ returned'[1].fn = "get_product_analysis") =>
             /\ ~returned'[1].raised
             /\ ~db_pool =>
                   /\ returned'[1].source = "research"
                   /\ \E request \in ScanRequests :
                         returned'[1].body \in Researched(request)
                   /\ products' = products
       /\ \A h \in DOMAIN scans :
             /\ (scans[h].pc = "select"
                   /\ h \in DOMAIN scans' /\ scans'[h].readFailed) =>
                   /\ scans'[h].pc = "insert"
                   /\ scans'[h].result # None
                   /\ scans'[h].result[1] \in Researched(scans[h].request)
             /\ (scans[h].pc = "insert" /\ h \notin DOMAIN scans') =>
                   /\ returned' = Some(ScanResponse(FALSE, "research",
                                                    scans[h].result[1],
                                                    scans[h].cache_key))
                   /\ \/ products' = products
                      \/ products' = ScoringUpsert(products, TRUE,
                                                   scans[h].cache_key,
                                                   scans[h].request.product_name,
                                                   scans[h].request.brand,
                                                   scans[h].result[1], now).table
       /\ (returned' # None /\ returned'[1].fn = "get_cached_deep_research") =>
             /\ ~returned'[1].raised
             /\ returned'[1].failed =>
                   (returned'[1].value = None /\ research' = research)
       /\ (returned' # None /\ returned'[1].fn = "save_deep_research_to_cache") =>
             /\ ~returned'[1].raised
             /\ returned'[1].failed =>
                   (returned'[1].value = FALSE /\ research' = research)]_vars

\* A call with a pool has returned a researched report and the table holds
\* no row for it: the write was dropped
C9_Witness ==
    /\ db_pool
    /\ returned # None
    /\ returned[1].fn = "get_product_analysis"
    /\ returned[1].source = "research"
    /\ returned[1].body.overall_score = 42
    /\ returned[1].cache_key \notin DOMAIN products

\* What the INSERT of handler h leaves behind when it runs: the row of the
\* key carries the researched result and the time of the write
Superseded(h) ==
    /\ scans[h].cache_key \in DOMAIN products'
    /\ products'[scans[h].cache_key].data = scans[h].result[1]
    /\ products'[scans[h].cache_key].updated_at = now

\* C10 as stated: get_product_analysis returns the stored payload without
\* the external analysis exactly when a row for the key exists and is
\* younger than 7 days; an older row is a miss, the external analysis runs
\* and the upsert supersedes the row; the read deletes nothing.
C10_HitExactlyWhenFreshRow ==
    [][\A h \in DOMAIN scans :
          /\ (scans[h].pc = "select"
                /\ (h \notin DOMAIN scans' \/ scans'[h] # scans[h])) =>
                /\ IF FreshRow(scans[h].cache_key, now)
                   THEN /\ h \notin DOMAIN scans'
                        /\ returned' = Some(ScanResponse(
                                          FALSE, "cache",
                                          products[scans[h].cache_key].data,
                                          scans[h].cache_key))
                   ELSE /\ h \in DOMAIN scans'
                        /\ scans'[h].pc = "insert"
                        /\ scans'[h].result # None
                /\ products' = products
          /\ (scans[h].pc = "insert" /\ h \notin DOMAIN scans'
                /\ scans[h].cache_key \in DOMAIN products
                /\ ~FreshRow(scans[h].cache_key, now)) =>
                Superseded(h)]_vars

\* C10 as the code has it: the stored payload is returned without the
\* external analysis exactly when the SELECT runs and finds a row younger
\* than 7 days.  A row 7 days old or older, or a SELECT that raises, is a
\* miss: the external analysis runs, and the INSERT, unless it raises,
\* supersedes the row.  The read deletes nothing.
C10_HitExactlyWhenFreshRowRead ==
    [][\A h \in DOMAIN scans :
          /\ (scans[h].pc = "select"
                /\ (h \notin DOMAIN scans' \/ scans'[h] # scans[h])) =>
                /\ IF h \notin DOMAIN scans'
                   THEN /\ FreshRow(scans[h].cache_key, now)
                        /\ returned' = Some(ScanResponse(
                                          FALSE, "cache",
                                          products[scans[h].cache_key].data,
                                          scans[h].cache_key))
                   ELSE /\ scans'[h].pc = "insert"
                        /\ scans'[h].result # None
                        /\ scans'[h].result[1] \in Researched(scans[h].request)
                        /\ FreshRow(scans[h].cache_key, now) => scans'[h].readFailed
                /\ products' = products
          /\ (scans[h].pc = "insert" /\ h \notin DOMAIN scans') =>
                (products' = products \/ Superseded(h))]_vars

\* A SELECT that ran found the row exactly 7 days old and took it for a
\* miss: the product was researched and the old row is still stored
C10_Witness ==
    \E h \in DOMAIN scans :
        /\ scans[h].pc = "insert"
        /\ ~scans[h].readFailed
        /\ scans[h].result # None
        /\ scans[h].cache_key \in DOMAIN products
        /\ now - products[scans[h].cache_key].updated_at = FreshDays

\* C11: cache_key is UNIQUE, so the table holds one row per key; whenever an
\* INSERT of get_product_analysis is applied, also while another call for
\* the same key is in flight, the key has a row afterwards, the row holds
\* the payload of that writer, and the rows of the other keys are untouched.
C11_LastWriterWins ==
    [][\A h \in DOMAIN scans :
          (scans[h].pc = "insert" /\ h \notin DOMAIN scans'
              /\ products' # products) =>
             /\ DOMAIN products' = DOMAIN products \cup {scans[h].cache_key}
             /\ products'[scans[h].cache_key].data = scans[h].result[1]
             /\ products'[scans[h].cache_key].updated_at = now
             /\ \A k \in DOMAIN products \ {scans[h].cache_key} :
                   products'[k] = products[k]
             /\ returned' # None
             /\ returned'[1].body = products'[scans[h].cache_key].data]_vars

\* Two calls for one key raced: one has written its payload on the day the
\* other found no row, and the other is about to write a different payload
C11_Witness ==
    \E h \in DOMAIN scans :
        /\ scans[h].pc = "insert"
        /\ ~scans[h].readFailed
        /\ now = 0
        /\ scans[h].cache_key \in DOMAIN products
        /\ products[scans[h].cache_key].data # scans[h].result[1]
        /\ returned # None
        /\ returned[1].fn = "get_product_analysis"
        /\ returned[1].source = "research"
        /\ returned[1].body = products[scans[h].cache_key].data

(***************************************************************************)
(* Properties of the cache key                                             *)
(***************************************************************************)
\* C12: normalize_cache_key is idempotent: applied to the brand segment and
\* the name segment of a key it returned, it returns that key again.
C12_Idempotent ==
    [][(returned # None /\ returned[1].fn = "normalize_cache_key"
          /\ key_args' # None /\ returned' # None
          /\ key_args'[1].brand = KeySegments(returned[1].value).brand
          /\ key_args'[1].product_name
                = KeySegments(returned[1].value).product_name
          /\ key_args'[1].appended = key_args[1].appended)
        => returned'[1].value = returned[1].value]_vars

Scored == returned # None /\ returned[1].fn = "calculate_v4_score"

\* Whether the table has a key that the lowered ingredient name contains
TierHit(table, ingredient) ==
    \E i \in 1..Len(table) : Contains(lower(ingredient), table[i].key)

\* For every ingredient of the inputs, the tables that have such a key
TierHits ==
    [ingredient \in IngredientNames \cup ExtraNames |->
        [f |-> TierHit(TIER_1_AVOID, ingredient),
         d |-> TierHit(TIER_2_LIMIT, ingredient),
         c |-> TierHit(TIER_3_CAUTION, ingredient),
         safe |-> TierHit(TIER_4_SAFE, ingredient)]]

\* C14: an ingredient gets the tier of the first table, in the order F, D,
\* C, B/A, that has a key its lowered name contains, whatever keys of the
\* later tables the name contains too.
C14_FirstTierWins ==
    Scored =>
        \A k \in 1..Len(returned[1].value.ingredients_graded) :
            LET e == returned[1].value.ingredients_graded[k]
                hit == TierHits[e.name]
            IN  /\ hit.f => e.grade = "F" /\ e.hazard_score = 0
                /\ (~hit.f /\ hit.d) => e.grade = "D" /\ e.hazard_score = 35
                /\ (~hit.f /\ ~hit.d /\ hit.c) =>
                       e.grade = "C" /\ e.hazard_score = 55
                /\ (~hit.f /\ ~hit.d /\ ~hit.c /\ hit.safe) =>
                       e.grade \in {"A", "B"}

C14_Witness ==
    /\ Scored
    /\ \E k \in 1..Len(returned[1].value.ingredients_graded) :
          LET e == returned[1].value.ingredients_graded[k]
          IN  /\ e.name = "Partially Hydrogenated Soybean Oil"
              /\ TierHits[e.name].f /\ TierHits[e.name].c
              /\ e.grade = "F"
    /\ \E k \in 1..Len(returned[1].value.ingredients_graded) :
          LET e == returned[1].value.ingredients_graded[k]
          IN  /\ e.name = "High Fructose Corn Syrup"
              /\ TierHits[e.name].d /\ TierHits[e.name].c
              /\ e.grade = "D"

\* An ingredient none of the four tables has a key for
Unmatched(ingredient) ==
    LET hit == TierHits[ingredient]
    IN  ~hit.f /\ ~hit.d /\ ~hit.c /\ ~hit.safe

NoRepeat(list) ==
    \A i, j \in 1..Len(list) : i # j => list[i] # list[j]

\* C16: hidden_truths never holds the same narrative text twice, however
\* many ingredients carry the same narrative and whichever of the
\* ultra-processing, corporate and monoculture narratives are added.
C16_NarrativesOnce ==
    Scored => NoRepeat(returned[1].value.hidden_truths)

C16_Witness ==
    /\ Scored
    /\ \E i, j \in 1..Len(returned[1].value.ingredients_graded) :
          /\ i # j
          /\ returned[1].value.ingredients_graded[i].hidden_truth # None
          /\ returned[1].value.ingredients_graded[i].hidden_truth
                = returned[1].value.ingredients_graded[j].hidden_truth
    /\ returned[1].value.parent_company # None
    /\ Len(returned[1].value.hidden_truths) >= 3
    /\ NoRepeat(returned[1].value.hidden_truths)

\* The number of alerts that start with one of the prefixes
AlertCount(alerts, prefixes) ==
    Cardinality({i \in 1..Len(alerts) :
                    \E p \in prefixes : StartsAt(alerts[i], 1, p)})

\* C17: the alerts hold one score-cap alert exactly when a cap applies (an
\* ingredient is graded F, D or C), one processing alert exactly when
\* ultra-processing is detected (five markers or more, processing_level 20),
\* one ownership alert exactly when the brand has a parent company, and no
\* alert twice.
C17_OneAlertPerCondition ==
    Scored =>
        LET r == returned[1].value
            capped == \E k \in 1..Len(r.ingredients_graded) :
                          r.ingredients_graded[k].grade \in {"F", "D", "C"}
        IN  /\ AlertCount(r.alerts, {"(scales) SCORE CAPPED"})
                  = IF capped THEN 1 ELSE 0
            /\ AlertCount(r.alerts, {"(factory) ULTRA-PROCESSED",
                                     "(warning) HIGHLY PROCESSED"})
                  = IF r.dimension_scores.processing_level = 20 THEN 1 ELSE 0
            /\ AlertCount(r.alerts, {"(pin) OWNED BY"})
                  = IF r.parent_company # None THEN 1 ELSE 0
            /\ NoRepeat(r.alerts)

(***************************************************************************)
(* Properties of the grade, the processing level and the order of entries  *)
(***************************************************************************)
\* C18: overall_grade is the grade of the band the returned overall_score
\* lies in (A+ from 95, A 85..94, B 70..84, C 50..69, D 30..49, F below 30),
\* and a product with an ingredient graded F is graded F.
C18_GradeIsBandOfScore ==
    Scored =>
        LET r == returned[1].value
        IN  /\ r.overall_score \in 0..100
            /\ (r.overall_grade = "A+") <=> (r.overall_score \in 95..100)
            /\ (r.overall_grade = "A") <=> (r.overall_score \in 85..94)
            /\ (r.overall_grade = "B") <=> (r.overall_score \in 70..84)
            /\ (r.overall_grade = "C") <=> (r.overall_score \in 50..69)
            /\ (r.overall_grade = "D") <=> (r.overall_score \in 30..49)
            /\ (r.overall_grade = "F") <=> (r.overall_score \in 0..29)
            /\ (\E k \in 1..Len(r.ingredients_graded) :
                    r.ingredients_graded[k].grade = "F")
                  => r.overall_grade = "F"

C18_Witness ==
    /\ Scored
    /\ \E k \in 1..Len(returned[1].value.ingredients_graded) :
          returned[1].value.ingredients_graded[k].grade = "F"
    /\ \E k \in 1..Len(returned[1].value.ingredients_graded) :
          returned[1].value.ingredients_graded[k].grade = "A"
    /\ returned[1].value.overall_score = 29
    /\ returned[1].value.overall_grade = "F"

\* For every ingredient of the inputs, whether its name holds a marker and
\* how many markers it holds
NovaHits ==
    [ingredient \in IngredientNames \cup ExtraNames |->
        [marked |-> HasNovaMarker(ingredient),
         markers |-> NovaMarkersContained(ingredient)]]

\* The ingredients of the list, by position, whose name holds a marker
Marked(ingredients) ==
    {i \in 1..Len(ingredients) : NovaHits[ingredients[i]].marked}

\* C19: processing_level is a function of the number n of ingredients whose
\* name holds a processing marker, an ingredient with several markers
\* counting once: 20 for n >= 5, 40 for n in 3..4, 60 for n in 1..2, 90 for 0.
C19_ProcessingLevelOfMarkedCount ==
    Scored =>
        LET n == Cardinality(Marked(product_data[1].ingredients))
            level == returned[1].value.dimension_scores.processing_level
        IN  /\ n >= 5 => level = 20
            /\ n \in 3..4 => level = 40
            /\ n \in 1..2 => level = 60
            /\ n = 0 => level = 90

C19_Witness ==
    /\ Scored
    /\ Cardinality(Marked(product_data[1].ingredients)) = 5
    /\ Len(product_data[1].ingredients) = 6
    /\ \E i \in Marked(product_data[1].ingredients) :
          NovaHits[product_data[1].ingredients[i]].markers >= 2
    /\ returned[1].value.dimension_scores.processing_level = 20

\* grade_order: the severity rank of a grade, F first
Severity(grade) ==
    CASE grade = "F" -> 0 [] grade = "D" -> 1 [] grade = "C" -> 2
      [] grade = "B" -> 3 [] grade = "A" -> 4

\* How often the name occurs among the names
Occurrences(names, name) ==
    Cardinality({i \in 1..Len(names) : names[i] = name})

\* C20: ingredients_graded has one entry for each input ingredient, as many
\* entries of a name as the input names it, and no entry comes after an
\* entry of a less severe grade (order F, D, C, B, A).
C20_OneEntryEachWorstFirst ==
    Scored =>
        LET graded == returned[1].value.ingredients_graded
            ingredients == product_data[1].ingredients
            names == [k \in 1..Len(graded) |-> graded[k].name]
        IN  /\ Len(graded) = Len(ingredients)
            /\ \A i \in 1..Len(ingredients) :
                  Occurrences(names, ingredients[i])
                      = Occurrences(ingredients, ingredients[i])
            /\ \A i, j \in 1..Len(graded) :
                  i < j => Severity(graded[i].grade) <= Severity(graded[j].grade)

C20_Witness ==
    /\ Scored
    /\ product_data[1].ingredients = <<"Water", "sea salt", "Red 3">>
    /\ returned[1].value.ingredients_graded[1].name = "Red 3"
    /\ returned[1].value.ingredients_graded[1].grade = "F"
    /\ returned[1].value.ingredients_graded[2].name = "sea salt"
    /\ returned[1].value.ingredients_graded[2].grade = "B"
    /\ returned[1].value.ingredients_graded[3].name = "Water"
    /\ returned[1].value.ingredients_graded[3].grade = "A"

(***************************************************************************)
(* Properties of the flat scoring path                                     *)
(***************************************************************************)
\* The values of the three calls that ended in the latest step
Recalculated == returned # None /\ returned[1].fn = "recalculate_scores"

\* 5 for every score of 7 or more, 2 for every score from 4 to 6
PenaltyOf(hazard_scores) ==
    SumSeq([i \in 1..Len(hazard_scores) |->
               IF hazard_scores[i] >= 7 THEN 5
               ELSE IF hazard_scores[i] >= 4 THEN 2 ELSE 0], 1)

\* C21 as stated: for a non-empty list, safety_score is exactly
\* max(0, (100 - 10 * avg) - penalty), that is, count * safety_score equals
\* max(0, 100 * count - 10 * total - penalty * count).
C21_SafetyScoreExact ==
    (Recalculated /\ Len(flat[1].hazard_scores) > 0) =>
        LET hs == flat[1].hazard_scores
            count == Len(hs)
            exact_num == 100 * count - 10 * SumSeq(hs, 1) - PenaltyOf(hs) * count
        IN  /\ returned[1].scoring_result.penalty = PenaltyOf(hs)
            /\ count * returned[1].scoring_result.safety_score
                  = IF exact_num < 0 THEN 0 ELSE exact_num

\* C21, amended: safety_score is max(0, (100 - 10 * avg) - penalty) cut to
\* an integer: the largest integer s with count * s at most the numerator.
C21_SafetyScoreTruncated ==
    (Recalculated /\ Len(flat[1].hazard_scores) > 0) =>
        LET hs == flat[1].hazard_scores
            count == Len(hs)
            exact_num == 100 * count - 10 * SumSeq(hs, 1) - PenaltyOf(hs) * count
            floor_num == IF exact_num < 0 THEN 0 ELSE exact_num
            s == returned[1].scoring_result.safety_score
        IN  /\ returned[1].scoring_result.penalty = PenaltyOf(hs)
            /\ count * s <= floor_num
            /\ floor_num < count * (s + 1)

C21_Witness ==
    /\ Recalculated
    /\ flat[1].hazard_scores = <<0, 3, 4>>
    /\ returned[1].scoring_result.base_score = 76
    /\ returned[1].scoring_result.penalty = 2
    /\ returned[1].scoring_result.safety_score = 74

\* C22: for n positive claims of +3 each, apply_positive_bonuses adds
\* min(15, 3n) to the score, never more than 15, and returns at most 100.
C22_BonusCappedAt15 ==
    Recalculated =>
        LET n == Len(flat[1].bonus_points)
            score == returned[1].scoring_result.safety_score
            adjusted == returned[1].safety_with_bonuses
        IN  /\ adjusted = Min(100, score + Min(15, 3 * n))
            /\ adjusted - score <= 15
            /\ adjusted <= 100

C22_Witness ==
    /\ Recalculated
    /\ Len(flat[1].bonus_points) = 6
    /\ returned[1].scoring_result.safety_score = 70
    /\ returned[1].safety_with_bonuses = 85

\* The weight of the condition, in hundredths: 15 for cookware, else 5
WeightOf(product_type) ==
    IF product_type \in {"cookware", "Cookware"} THEN 15 ELSE 5

\* C23 as stated: the score returned is the score plus exactly
\* conditionScore * weight (0.15 for cookware, else 0.05), kept within 0..100.
C23_ConditionModifierExact ==
    Recalculated =>
        LET x100 == 100 * returned[1].safety_with_bonuses
                       + GetOr(flat[1].condition, 100)
                            * WeightOf(flat[1].product_type)
        IN  /\ returned[1].final_score \in 0..100
            /\ 100 * returned[1].final_score = Min(10000, x100)

\* C23, amended: the score returned is the score plus the integer part of
\* conditionScore * weight (0.15 for cookware, else 0.05), within 0..100.
C23_ConditionModifierTruncated ==
    Recalculated =>
        LET weighted_x100 == GetOr(flat[1].condition, 100)
                                * WeightOf(flat[1].product_type)
        IN  /\ returned[1].final_score \in 0..100
            /\ \E modifier \in 0..15 :
                  /\ 100 * modifier <= weighted_x100
                  /\ weighted_x100 < 100 * (modifier + 1)
                  /\ returned[1].final_score
                        = Min(100, returned[1].safety_with_bonuses + modifier)

C23_Witness ==
    /\ Recalculated
    /\ flat[1].condition = Some(50)
    /\ flat[1].product_type = "cookware"
    /\ returned[1].safety_with_bonuses = 80
    /\ returned[1].final_score = 87

\* The neutral default report for a product: score 50, grade C
NeutralDefault(body, product_name) ==
    /\ body.product_name = product_name
    /\ body.overall_score = 50
    /\ body.overall_grade = "C"

\* C24: when the call of the external analysis raises or its answer holds
\* no JSON object, get_product_analysis does not raise: with or without a
\* pool, and whether or not the cache write then succeeds, it returns the
\* neutral default report of the product, grade C with score 50.
C24_FailedResearchReturnsDefault ==
    [][/\ (~db_pool /\ numCalls' = numCalls + 1) =>
             \A request \in ScanRequests, o \in ResearchOutcomes :
                (o.kind # "json" /\ ScanWithoutPool(request, o)) =>
                    /\ returned' # None
                    /\ ~returned'[1].raised
                    /\ NeutralDefault(returned'[1].body, request.product_name)
       /\ \A h \in DOMAIN scans :
             (/\ scans[h].pc = "select"
              /\ h \in DOMAIN scans'
              /\ scans'[h].pc = "insert") =>
                 \/ /\ scans'[h].result # None
                    /\ NeutralDefault(scans'[h].result[1],
                                      scans[h].request.product_name)
                 \/ \A ok \in BOOLEAN, o \in ResearchOutcomes :
                       ~(o.kind # "json" /\ ScanSelect(h, ok, o))
       /\ \A h \in DOMAIN scans :
             (/\ scans[h].pc = "insert"
              /\ h \notin DOMAIN scans'
              /\ NeutralDefault(scans[h].result[1],
                                scans[h].request.product_name)) =>
                 \/ /\ returned' # None
                    /\ ~returned'[1].raised
                    /\ returned'[1].body = scans[h].result[1]
                 \/ \A ok \in BOOLEAN : ~ScanInsert(h, ok)]_vars

\* A call with a pool missed the cache, the research failed, and the call
\* has returned the neutral default report
C24_Witness ==
    /\ db_pool
    /\ returned # None
    /\ returned[1].fn = "get_product_analysis"
    /\ ~returned[1].raised
    /\ returned[1].source = "research"
    /\ returned[1].body = FallbackResult("Disinfecting Wipes - 12ct")
    /\ NeutralDefault(returned[1].body, "Disinfecting Wipes - 12ct")

\* Whether the integer x is a nearest integer to num / den (den > 0)
Nearest(x, num, den) ==
    /\ 2 * (x * den - num) <= den
    /\ 2 * (num - x * den) <= den

\* C25: overall_score is 0.40 * ingredientSafety + 0.25 * processingLevel
\* + 0.20 * corporateEthics + 0.15 * supplyChain, lowered to the cap of the
\* worst tier present (29 for F, 49 for D, 69 for C), rounded to the nearest
\* integer and kept in 0..100, where ingredientSafety is the mean of the
\* ingredient scores, 50 for an empty list, and every dimension score lies
\* in 0..100.
C25_WeightedSumCappedRounded ==
    Scored =>
        LET r == returned[1].value
            d == r.dimension_scores
            g == r.ingredients_graded
            n == Len(g)
            \* ingredientSafety = safety_num / safety_den
            safety_num ==
                IF n > 0 THEN SumSeq([i \in 1..n |-> g[i].hazard_score], 1) ELSE 50
            safety_den == IF n > 0 THEN n ELSE 1
            \* the weighted sum = sum_num / sum_den
            sum_den == 100 * safety_den
            sum_num ==
                40 * safety_num
                   + safety_den * (25 * d.processing_level
                                      + 20 * d.corporate_ethics
                                      + 15 * d.supply_chain)
            cap == IF \E i \in 1..n : g[i].grade = "F" THEN 29
                   ELSE IF \E i \in 1..n : g[i].grade = "D" THEN 49
                   ELSE IF \E i \in 1..n : g[i].grade = "C" THEN 69
                   ELSE 100
            lowered_num ==
                IF sum_num > cap * sum_den THEN cap * sum_den ELSE sum_num
        IN  /\ r.overall_score \in 0..100
            /\ Nearest(r.overall_score, lowered_num, sum_den)
            /\ Nearest(d.ingredient_safety, safety_num, safety_den)
            /\ \A i \in 1..n : g[i].hazard_score \in 0..100
            /\ d.ingredient_safety \in 0..100
            /\ d.processing_level \in 0..100
            /\ d.corporate_ethics \in 0..100
            /\ d.supply_chain \in 0..100

\* A product without a capped tier whose weighted sum has a fraction: two
\* ingredients scored 95 and 80, processing 90, a brand with a penalty
C25_Witness ==
    /\ Scored
    /\ Len(returned[1].value.ingredients_graded) = 2
    /\ \A i \in 1..2 : returned[1].value.ingredients_graded[i].grade \in {"A", "B"}
    /\ returned[1].value.dimension_scores.corporate_ethics < 70
    /\ returned[1].value.overall_score >= 70

\* C26: every job created on a cache miss eventually reaches COMPLETED or
\* FAILED, as long as its background task is run, the API call returns or
\* raises, and the job store is not cleared before it got there.
C26_JobReachesTerminal ==
    \A job_id \in JobIds :
        (job_id \in DOMAIN jobs /\ jobs[job_id].status \in {"pending", "processing"})
           ~> (\/ job_id \notin DOMAIN jobs
               \/ jobs[job_id].status \in {"completed", "failed"})

\* A job created on a miss is COMPLETED and its task has ended, and another
\* one is FAILED
C26_Witness ==
    /\ workers = EmptyDict
    /\ \E job_id \in JobIds :
          job_id \in DOMAIN jobs /\ jobs[job_id].status = "completed"
    /\ \E job_id \in JobIds :
          job_id \in DOMAIN jobs /\ jobs[job_id].status = "failed"

\* The ids handed out so far to jobs created on a cache miss
Issued == {Uuid(n) : n \in 1..nextJob}

\* C27: get_job returns not-found for every id the store does not hold, and
\* once cleanup_old_jobs or wipe_cache has cleared the store, no later call
\* of update_job_progress, complete_job or fail_job by a worker that is still
\* running brings the job of a cleared id back: the id stays not-found.
C27_ClearedJobStaysGone ==
    [][\A job_id \in Issued :
          job_id \notin DOMAIN jobs =>
             /\ get_job(jobs, job_id) = None
             /\ get_job(jobs', job_id) = None]_vars

\* The store was cleared under a worker that has the API call and
\* complete_job or fail_job still ahead: the id it works for is not-found
C27_Witness ==
    \E job_id \in Issued :
        /\ job_id \in DOMAIN workers
        /\ workers[job_id].pc = 4
        /\ get_job(jobs, job_id) = None

\* Whether a payload is the fallback report of research_product
IsFallback(body) ==
    \E request \in ScanRequests : body = FallbackResult(request.product_name)

\* C28: the scoring cache holds only results of a successful external
\* analysis: the fallback report of a failed call is never stored in
\* cached_products, and so is never returned as a cache hit.
C28_FallbackNeverCached ==
    /\ \A cache_key \in DOMAIN products : ~IsFallback(products[cache_key].data)
    /\ (/\ returned # None
        /\ returned[1].fn = "get_product_analysis"
        /\ returned[1].source = "cache") => ~IsFallback(returned[1].body)

\* The answer of the get_deep_research_pdf call that ended in the latest
\* step
PdfSent == returned # None /\ returned[1].fn = "get_deep_research_pdf"

\* Whether the bytes were rendered from the report of the result or row x
RenderedFrom(pdf_bytes, x) ==
    /\ pdf_bytes.report = x.report
    /\ pdf_bytes.full_report = x.full_report

\* C29: under every interleaving of jobs, cache outages and PDF requests
\* for one key, the PDF bytes stored under a key were rendered from the
\* report stored under that key, and the PDF the endpoint sends for a
\* completed job was rendered from the report of that job's result.
C29_PdfMatchesReport ==
    /\ \A cache_key \in DOMAIN research :
          research[cache_key].pdf_bytes # None =>
             RenderedFrom(research[cache_key].pdf_bytes[1], research[cache_key])
    /\ (PdfSent /\ returned[1].pdf # None) =>
          RenderedFrom(returned[1].pdf[1], jobs[returned[1].job_id].result[1])

\* The key under which start_deep_research looked the product of a result
\* up and under which the worker stored it
LookupKey(result) ==
    RequestKey(CHOOSE request \in Requests :
                   request.product_name = result.product_name)

\* C30: for every completed job, fresh or synthetic, of a request with or
\* without a brand, the key get_deep_research_pdf derives from the brand and
\* product_name of the result is computed without an error and is the key
\* of the lookup in start_deep_research and of the row the worker stored.
C30_PdfKeyIsLookupKey ==
    /\ \A job_id \in DOMAIN jobs :
          (jobs[job_id].status = "completed" /\ jobs[job_id].result # None) =>
             LET key == pdf_cache_key(jobs[job_id].result[1]) IN
             /\ ~key.raised
             /\ key.value = LookupKey(jobs[job_id].result[1])
    /\ (PdfSent /\ returned[1].status \notin {400, 404}) =>
          /\ ~returned[1].raised
          /\ returned[1].cache_key
                = Some(LookupKey(jobs[returned[1].job_id].result[1]))

====
